---- MODULE Spec2Model ----
(***************************************************************************)
(* State-machine model of the resumable batch minting scripts of           *)
(* blockticity-l1-minting/placeholder-pia-test.                            *)
(*                                                                         *)
(* The single-signer batch minters (mint_batch_200k_300k.js and            *)
(* mint_batch_300k_400k.js) share one skeleton: load the mint log, compute *)
(* the pending tokens, initialise the chain connection, then process the   *)
(* pending tokens batch by batch through a p-limit worker pool, writing    *)
(* the mint log after every batch.  The variable script selects which of   *)
(* the scripts a behaviour runs; the places where they differ test it.     *)
(*                                                                         *)
(* Every `await` of the source is a point where the Node.js event loop may *)
(* run something else, so every action below is the synchronous code       *)
(* between two awaits.  The chain (the RPC node), the file system, the     *)
(* operator's SIGINT and a crash of the process are the environment.       *)
(***************************************************************************)
EXTENDS Integers, Sequences, FiniteSets, TLC

\* ---- bounds of the model (the scripts' CONFIG values, scaled down) ----
NumTokens == 3        \* START_TOKEN_ID..END_TOKEN_ID is 1..NumTokens
BatchSize == 2        \* CONFIG.BATCH_SIZE
Concurrency == 2      \* CONFIG.MINT_RATE_LIMIT, the p-limit width
RetryAttempts == 1    \* CONFIG.RETRY_ATTEMPTS
ResetEvery == 1       \* the periodic nonce reset cadence (every K batches)
MaxRuns == 2          \* process launches in one behaviour
MaxChain == 3         \* transactions the chain accepts in one behaviour
MaxZombies == 1       \* timed-out sends left behind at one time

\* bounds of the multi-signer minter (part_006), scaled down
MaxSigners == 2       \* CONFIG.SIGNER_KEYS.length, at most
SignerConcurrency == 3 \* its CONFIG.MINT_RATE_LIMIT (10, for at most 6 signers)
BackoffThreshold == 2 \* CONFIG.SIGNER_BACKOFF_THRESHOLD
BackoffDuration == 1  \* CONFIG.SIGNER_BACKOFF_DURATION, in clock ticks
MaxNow == 4           \* clock ticks in one behaviour

\* ---- program constants ----
NumProviders == 2     \* CONFIG.RPC_ENDPOINTS.length
NullNonce == -1       \* `let baseNonce = null`; null + n is n in JavaScript
NoSigner == -1        \* part_006: an undefined lastSignerIndex, a null signerData

VARIABLES
  script,               \* which script this behaviour runs
  pc,                   \* where main() stands
  mintLog,              \* the in-memory mint log: tokens and summary
  disk,                 \* the file at CONFIG.MINT_LOG_PATH
  writers,              \* fs.writeJson calls in progress on that file
  sigint,               \* whether the SIGINT handler is running
  pendingTokens,        \* main's pendingTokens array
  batchIdx,             \* main's loop variable i (0-based offset)
  wk,                   \* per token: its mintSingleToken call in the batch
  baseNonce,            \* module-level baseNonce
  nonceOffset,          \* module-level nonceOffset
  currentProviderIndex, \* module-level currentProviderIndex
  zombies,              \* nonces of timed-out sends whose code still runs
  chainCount,           \* the node's pending-inclusive transaction count
  hist,                 \* history of the current run, for the properties
  signerStates,         \* part_006: the signerStates Map
  now,                  \* part_006: Date.now(), in backoff periods
  tasks,                \* part_006: per token, its mintSingleTokenOptimized call
  globalNonce,          \* part_013: module-level globalNonce
  chainFaults,          \* what may go wrong at the RPC node in this behaviour
  tokenRec,             \* one token's record in detail, in memory and in the file
  multi,                \* prepare_batch2_mint_log.js: the multi-signer minter's state
  wrapped,              \* part_000: per token, its mintSingleToken call
  resync,               \* the scripts' resetNonceSequence, followed on its own
  pool,                 \* getNextProvider's rotation, followed on its own
  minter,               \* part_010: the MultiSignerBatchMinter instance
  landing               \* one token's mint transactions at the node, over attempts and runs

signerVars == <<signerStates, now, tasks>>

vars == <<script, pc, mintLog, disk, writers, sigint, pendingTokens, batchIdx,
          wk, baseNonce, nonceOffset, currentProviderIndex, zombies,
          chainCount, hist, signerVars, globalNonce, chainFaults, tokenRec, multi,
          wrapped, resync, pool, minter, landing>>

Range == 1..NumTokens

\* The environment of a behaviour: the tokens whose submissions the node may
\* reject or revert for a reason of its own, and whether its answers to
\* getTransactionCount may fail.
AnyFault == [tokens |-> Range, queries |-> TRUE]
MayFail(t) == t \in chainFaults.tokens
QueryOutcomes == IF chainFaults.queries THEN BOOLEAN ELSE {TRUE}

\* ---- the attempts field of a token record, as JavaScript values ----
UndefinedAttempts == -1   \* the record has no attempts property
NaNAttempts == -2         \* undefined++ is NaN
NullAttempts == -3        \* JSON.stringify writes NaN as null

\* a token record: status, attempts and txHash
Record(st, a, h) == [status |-> st, attempts |-> a, txHash |-> h]
NoRecord == Record("absent", UndefinedAttempts, "none")

\* ---- the multi-signer minter of prepare_batch2_mint_log.js ----
NumMultiSigners == 2   \* CONFIG.SIGNER_KEYS.length, scaled down
MultiSigners == 0..(NumMultiSigners - 1)

\* one mintSingleTokenRobust call, and what it recorded on success
IdleCall == [st |-> "idle", retry |-> 0, signer |-> NoSigner, nonce |-> NullNonce]
NoMulti ==
  [currentSignerIndex |-> 0,
   signerNonces |-> [i \in MultiSigners |-> [base |-> 0, offset |-> 0]],
   txCount |-> [i \in MultiSigners |-> 0],
   call |-> [t \in Range |-> IdleCall],
   recorded |-> [t \in Range |-> [signerIndex |-> NoSigner, nonce |-> NullNonce]]]

\* tokenRec outside the behaviours that follow one record in detail
NoTokenRec == [pc |-> "off", rec |-> NoRecord, file |-> NoRecord, exists |-> FALSE,
               retry |-> 0, made |-> 0, run |-> 0, last |-> "none"]

\* ---- the metadata-to-mint processor of part_000 ----
BackoffRetries == 2    \* retryWithBackoff's `retries = 3`, scaled down

\* one mintSingleToken(wallet, contract, tokenData, retryCount) call: where it
\* stands, retryCount, the loop variable i of retryWithBackoff, the token's
\* status in the mint log, the contract.mintURI calls made for the token, and
\* the token's status in the mint log file (main writes the new log, every
\* token pending, before the minting starts)
IdleWrapped == [st |-> "idle", retryCount |-> 0, i |-> 0, status |-> "pending",
                sent |-> 0, onDisk |-> "pending"]
NoWrapped == [t \in Range |-> IdleWrapped]

\* ---- resetNonceSequence of the three scripts that have one ----
MaxCount == 2          \* transactions of the account in one behaviour
LastKnownPlus == 3     \* part_000: `(nonce || 0) + 50`, scaled down
ResyncScripts == {"200k", "400k", "ultra"}

\* base is baseNonce (200k) or `nonce` (the others, null at first); seq is
\* nonceOffset (200k) or nonceSequence; latest and pending are the node's
\* transaction counts of the account at the tags 'latest' and 'pending'
NoResync == [st |-> "off", base |-> NullNonce, seq |-> 0, latest |-> 0,
             pending |-> 0]

\* ---- the endpoint rotation ----
MaxPoolCalls == 3      \* getNextProvider calls of one submission (its attempts)
Endpoints == 0..(NumProviders - 1)
NoEndpoint == -1       \* a submission that has not asked for a provider yet

\* currentProviderIndex, how often each provider was returned, and per
\* submission the provider it was given last and the calls it has made
NoPool == [index |-> 0, returned |-> [e \in Endpoints |-> 0],
           got |-> [t \in Range |-> NoEndpoint], calls |-> [t \in Range |-> 0]]

\* part_010, the multi-signer batch minter: the batches of executeBatches,
\* CONFIG.CONCURRENT_SIGNERS, and the instance before run() has started
NumBatches == 3
Batches == 0..(NumBatches - 1)
ConcurrentSigners == 2

NoBatch == [st |-> "todo", signer |-> NoSigner, nonce |-> NullNonce,
            outcome |-> "none", handed |-> 0]

NoMinter ==
  [pc |-> "off",
   signers |-> [i \in MultiSigners |->
                  [isActive |-> FALSE, currentNonce |-> NullNonce,
                   batchesMinted |-> 0, cooling |-> FALSE,
                   initialized |-> FALSE]],
   count |-> [i \in MultiSigners |-> 0],
   batchIndex |-> 0, completedBatches |-> 0,
   successfulBatches |-> 0, failedBatches |-> 0,
   batch |-> [b \in Batches |-> NoBatch],
   saved |-> FALSE]

\* a transaction of the token: not yet at the node, in the node's queue, or
\* mined; NoTx where there is none
NoNonce == -1
NoTx == [st |-> "none", nonce |-> NoNonce]
MaxMined == 2

NoLanding ==
  [pc |-> "off", run |-> 0, retry |-> 0, status |-> "pending",
   base |-> 0, off |-> 0, count |-> 0, tx |-> NoTx, orphan |-> NoTx]

----------------------------------------------------------------------------
\* The mint log

Summary(s, f, p) ==
  [total |-> NumTokens, successful |-> s, failed |-> f, pending |-> p]

RetryScripts == {"retry", "improved"}

\* `let mintLog = { tokens: {}, summary: {successful: 0, failed: 0, pending: N} }`
\* (the retry scripts start the summary at pending: 0)
InitialMintLog ==
  [tokens |-> [t \in Range |-> "absent"],
   summary |-> Summary(0, 0, IF script \in RetryScripts THEN 0 ELSE NumTokens)]

NoDisk == [st |-> "none", log |-> InitialMintLog]
PartialDisk == [st |-> "partial", log |-> InitialMintLog]
OkDisk(log) == [st |-> "ok", log |-> log]

Min(S) == CHOOSE x \in S : \A y \in S : x <= y

RECURSIVE SortAsc(_)
SortAsc(S) == IF S = {} THEN <<>> ELSE <<Min(S)>> \o SortAsc(S \ {Min(S)})

\* mint_batch_300k_400k.js main: the loop over START_TOKEN_ID..END_TOKEN_ID
RangeLoopSkipsFailed(log) ==
  SelectSeq([i \in 1..NumTokens |-> i],
            LAMBDA t : log.tokens[t] \in {"absent", "pending"})

RangeLoopSkipsInFlight(log) ==
  SelectSeq([i \in 1..NumTokens |-> i],
            LAMBDA t : log.tokens[t] \in {"absent", "failed"})

RangeLoopPending(log) ==
  SelectSeq([i \in 1..NumTokens |-> i],
            LAMBDA t : log.tokens[t] \in {"absent", "pending", "failed"})

\* mint_batch_200k_300k.js main: Object.entries(mintLog.tokens).filter.map.sort
EntriesPending(log) ==
  SortAsc({t \in Range : /\ log.tokens[t] # "absent"
                         /\ log.tokens[t] \in {"pending", "failed"}})

PendingTokensWithCompleted(log) ==
  SortAsc({t \in Range : log.tokens[t] # "absent"})

PendingTokens(log) ==
  IF script = "200k" THEN EntriesPending(log) ELSE RangeLoopPending(log)

MarkCompletedKeepsPending(log, t) ==
  [log EXCEPT !.tokens[t] = "completed", !.summary.successful = @ + 1]

\* the success path of mintSingleToken: status, summary.successful++, pending--
MarkCompleted(log, t) ==
  [log EXCEPT !.tokens[t] = "completed",
              !.summary.successful = @ + 1,
              !.summary.pending = @ - 1]

MarkFailedLeavesPending(log, t) ==
  [log EXCEPT !.summary.failed = @ + 1, !.summary.pending = @ - 1]

\* the end of the catch block: status failed, summary.failed++, pending--
MarkFailed(log, t) ==
  [log EXCEPT !.tokens[t] = "failed",
              !.summary.failed = @ + 1,
              !.summary.pending = @ - 1]

\* loadExistingProgress of mint_batch_200k_300k.js, no file: every token pending
InitAllPending(log) == [log EXCEPT !.tokens = [t \in Range |-> "pending"]]

----------------------------------------------------------------------------
\* The worker pool

IdleWk == [st |-> "idle", retry |-> 0, nonce |-> NullNonce, landed |-> FALSE]
QueuedWk == [IdleWk EXCEPT !.st = "queued"]
DoneWk == [IdleWk EXCEPT !.st = "done"]

InFlightSt == {"nonce", "est", "wait", "reset", "sleep", "akwait", "write",
               "failwrite"}
Active(w) == Cardinality({t \in Range : w[t].st \in InFlightSt})
Queued(w) == {t \in Range : w[t].st = "queued"}

NumOf(b) == IF b = NullNonce THEN 0 ELSE b

\* getNextNonce: baseNonce + nonceOffset, then nonceOffset++
getNextNonce(base, off) == NumOf(base) + off

NextProviderIndexStuck(i) == i

\* getNextProvider: currentProviderIndex = (currentProviderIndex + 1) % length
NextProviderIndex(i) == IF script = "300k" THEN (i + 1) % NumProviders ELSE i

\* The synchronous head of mintSingleToken(tokenId, retryCount): the record is
\* created if missing, the nonce is taken, the provider is rotated and the gas
\* estimate is awaited.  s is the program state it reads and writes.
BeginMint(s, t, r) ==
  [s EXCEPT
     !.log = IF @.tokens[t] = "absent" THEN [@ EXCEPT !.tokens[t] = "pending"]
             ELSE @,
     !.off = @ + 1,
     !.idx = NextProviderIndex(@),
     !.wk[t] = [st |-> "est", retry |-> r,
                nonce |-> getNextNonce(s.base, s.off), landed |-> FALSE],
     !.sub = @ \cup {t},
     !.used = TRUE]

\* pLimit(CONFIG.MINT_RATE_LIMIT): mint_batch_200k_300k.js is given a width
\* below its batch size, as in its CONFIG, so that calls wait in the queue
MintRateLimit == IF script = "200k" THEN Concurrency - 1 ELSE Concurrency

RECURSIVE DispatchAll(_)
DispatchAll(s) ==
  IF Queued(s.wk) # {} THEN DispatchAll(BeginMint(s, Min(Queued(s.wk)), 0)) ELSE s

\* p-limit: while fewer than MINT_RATE_LIMIT calls are active, the oldest
\* queued call is started (the queue is the batch order, which is ascending).
RECURSIVE Dispatch(_)
Dispatch(s) ==
  IF Active(s.wk) < MintRateLimit /\ Queued(s.wk) # {}
  THEN Dispatch(BeginMint(s, Min(Queued(s.wk)), 0))
  ELSE s

Finish(s, t) == Dispatch([s EXCEPT !.wk[t] = DoneWk])

RetryOrFailAbortsBatch(s, t) ==
  IF s.wk[t].retry < RetryAttempts
  THEN [s EXCEPT !.wk[t].st = "sleep"]
  ELSE [s EXCEPT !.log = MarkFailed(@, t),
                 !.wk = [u \in Range |-> IF @[u].st = "idle" THEN @[u] ELSE DoneWk]]

\* `if (retryCount < CONFIG.RETRY_ATTEMPTS)`: sleep and recurse, else mark failed
RetryOrFail(s, t) ==
  IF s.wk[t].retry < RetryAttempts
  THEN [s EXCEPT !.wk[t].st = "sleep"]
  ELSE Finish([s EXCEPT !.log = MarkFailed(@, t)], t)

\* which errors make the catch block await resetNonceSequence()
NeedsReset(kind) ==
  IF script = "300k" THEN kind \in {"NONCE_ERROR", "TIMEOUT"}
  ELSE kind = "NONCE_ERROR"

\* the catch block of mintSingleToken up to its first await
Catch(s, t, kind) ==
  IF kind = "ALREADY_KNOWN" THEN Finish([s EXCEPT !.log = MarkCompleted(@, t)], t)
  ELSE IF NeedsReset(kind) THEN [s EXCEPT !.wk[t].st = "reset"]
  ELSE RetryOrFail(s, t)

\* the program state the synchronous code reads and writes, as one value
Cur == [log |-> mintLog, base |-> baseNonce, off |-> nonceOffset,
        idx |-> currentProviderIndex, wk |-> wk, sub |-> hist.submitted,
        used |-> hist.chainUsed]

Commit(s) ==
  /\ mintLog' = s.log
  /\ baseNonce' = s.base
  /\ nonceOffset' = s.off
  /\ currentProviderIndex' = s.idx
  /\ wk' = s.wk
  /\ hist' = [hist EXCEPT !.submitted = s.sub, !.chainUsed = s.used]

\* resetNonceSequence once getTransactionCount has answered (ok) or thrown
resetNonceSequence(s, ok) ==
  IF ok THEN [s EXCEPT !.base = chainCount, !.off = 0, !.used = TRUE]
  ELSE [s EXCEPT !.used = TRUE]

----------------------------------------------------------------------------
\* The file system: fs.writeJson opens the file with truncation, writes the
\* text serialised at the call, and closes it.

BeginWrite(who, log) ==
  /\ writers' = writers \cup {[who |-> who, log |-> log]}
  /\ disk' = PartialDisk

MainWriter == CHOOSE w \in writers : w.who = "main"
SigintWriter == CHOOSE w \in writers : w.who = "sigint"

EndWrite(w) ==
  /\ writers' = writers \ {w}
  /\ disk' = IF writers \ {w} = {} THEN OkDisk(w.log) ELSE PartialDisk

----------------------------------------------------------------------------
\* main()

Running == pc \in {"load", "initsave", "init", "batch", "save", "pause",
                   "mreset", "final", "finalsave"}
Ended == pc \in {"fresh", "done", "fatal", "interrupted", "crashed"}

\* the exit status of a process that ended at p: main() returning lets Node
\* exit with 0, the catch of main calls process.exit(1), the SIGINT handler
\* calls process.exit(0); a killed process has the status of its signal
ExitStatus(p) ==
  CASE p = "done" -> 0
    [] p = "fatal" -> 1
    [] p = "interrupted" -> 0
    [] OTHER -> 137

IdleWorkers == [t \in Range |-> IdleWk]

\* the memory of a process that is gone, and of one that has just started
Forget ==
  /\ mintLog' = InitialMintLog
  /\ pendingTokens' = <<>>
  /\ batchIdx' = 0
  /\ wk' = IdleWorkers
  /\ baseNonce' = NullNonce
  /\ nonceOffset' = 0
  /\ currentProviderIndex' = 0
  /\ zombies' = {}
  /\ globalNonce' = NullNonce

\* the operator launches the script
Start ==
  /\ Ended /\ sigint = "no"
  /\ hist.runs < MaxRuns
  /\ pc' = "load"
  /\ Forget
  /\ hist' = [runs |-> hist.runs + 1, chainUsed |-> FALSE, submitted |-> {},
              startDisk |-> disk, prevExit |-> pc]
  /\ UNCHANGED signerVars
  /\ UNCHANGED <<script, chainFaults, tokenRec, multi, wrapped, resync, pool, minter, landing, disk, writers, sigint, chainCount>>

AfterLoad(log) == IF PendingTokens(log) = <<>> THEN "done" ELSE "init"

\* loadExistingProgress, then main's computation of pendingTokens
LoadExistingProgress ==
  /\ pc = "load"
  /\ IF disk.st = "partial"
     THEN \* readJson throws: main's catch, process.exit(1)
          /\ pc' = "fatal" /\ Forget /\ writers' = {} /\ sigint' = "no"
          /\ UNCHANGED <<disk, hist>>
     ELSE IF disk.st = "ok"
     THEN /\ mintLog' = disk.log
          /\ pendingTokens' = PendingTokens(disk.log)
          /\ pc' = AfterLoad(disk.log)
          /\ UNCHANGED <<disk, writers, sigint, batchIdx, wk, baseNonce,
                         nonceOffset, currentProviderIndex, zombies, hist,
                         globalNonce>>
     ELSE IF script = "200k"
     THEN \* every token is initialised pending and the log is written
          /\ mintLog' = InitAllPending(mintLog)
          /\ BeginWrite("main", InitAllPending(mintLog))
          /\ pc' = "initsave"
          /\ UNCHANGED <<sigint, pendingTokens, batchIdx, wk, baseNonce,
                         nonceOffset, currentProviderIndex, zombies, hist,
                         globalNonce>>
     ELSE /\ pendingTokens' = PendingTokens(mintLog)
          /\ pc' = AfterLoad(mintLog)
          /\ UNCHANGED <<mintLog, disk, writers, sigint, batchIdx, wk,
                         baseNonce, nonceOffset, currentProviderIndex, zombies,
                         hist, globalNonce>>
  /\ UNCHANGED signerVars
  /\ UNCHANGED <<script, chainFaults, tokenRec, multi, wrapped, resync, pool, minter, landing, chainCount>>

\* mint_batch_200k_300k.js: the initial writeJson of loadExistingProgress ends
InitSaveDone ==
  /\ pc = "initsave"
  /\ EndWrite(MainWriter)
  /\ pendingTokens' = PendingTokens(mintLog)
  /\ pc' = AfterLoad(mintLog)
  /\ UNCHANGED <<signerVars, globalNonce>>
  /\ UNCHANGED <<script, chainFaults, tokenRec, multi, wrapped, resync, pool, minter, landing, mintLog, sigint, batchIdx, wk, baseNonce, nonceOffset,
                 currentProviderIndex, zombies, chainCount, hist>>

\* p.slice(i, i + BATCH_SIZE)
Slice(p, i) ==
  {p[k] : k \in (i + 1)..(IF i + BatchSize < Len(p) THEN i + BatchSize ELSE Len(p))}

BatchOf(i) == Slice(pendingTokens, i)

StartBatchAndRest(s, i) ==
  Dispatch([s EXCEPT !.wk = [t \in Range |->
              IF \E k \in (i + 1)..Len(pendingTokens) : pendingTokens[k] = t
              THEN QueuedWk ELSE IdleWk]])

\* processBatch: batch.map(tokenId => mintLimit(() => mintSingleToken(tokenId)))
StartBatch(s, i) ==
  Dispatch([s EXCEPT !.wk = [t \in Range |->
                               IF t \in BatchOf(i) THEN QueuedWk ELSE IdleWk]])

\* initializeBlockchain returns (its nonce reset done or skipped on an error)
\* and the first batch starts
InitializeBlockchain ==
  /\ pc = "init"
  /\ \E ok \in QueryOutcomes : Commit(StartBatch(resetNonceSequence(Cur, ok), 0))
  /\ batchIdx' = 0
  /\ pc' = "batch"
  /\ UNCHANGED <<signerVars, globalNonce>>
  /\ UNCHANGED <<script, chainFaults, tokenRec, multi, wrapped, resync, pool, minter, landing, disk, writers, sigint, pendingTokens, zombies,
                 chainCount>>

\* Promise.all(mintPromises) resolves; processBatch calls fs.writeJson
BatchDone ==
  /\ pc = "batch"
  /\ \A t \in BatchOf(batchIdx) : wk[t].st = "done"
  /\ BeginWrite("main", mintLog)
  /\ pc' = "save"
  /\ wk' = IdleWorkers
  /\ UNCHANGED <<signerVars, globalNonce>>
  /\ UNCHANGED <<script, chainFaults, tokenRec, multi, wrapped, resync, pool, minter, landing, mintLog, sigint, pendingTokens, batchIdx, baseNonce,
                 nonceOffset, currentProviderIndex, zombies, chainCount, hist>>

\* the batch's writeJson ends: pause before the next batch, or leave the loop
SaveDone ==
  /\ pc = "save"
  /\ EndWrite(MainWriter)
  /\ pc' = IF batchIdx + BatchSize < Len(pendingTokens) THEN "pause" ELSE "final"
  /\ UNCHANGED <<signerVars, globalNonce>>
  /\ UNCHANGED <<script, chainFaults, tokenRec, multi, wrapped, resync, pool, minter, landing, mintLog, sigint, pendingTokens, batchIdx, wk,
                 baseNonce, nonceOffset, currentProviderIndex, zombies,
                 chainCount, hist>>

BatchNum == (batchIdx \div BatchSize) + 1

\* the inter-batch delay ends: `if (batchNum % K === 0) await resetNonceSequence()`
PauseDone ==
  /\ pc = "pause"
  /\ IF BatchNum % ResetEvery = 0
     THEN /\ pc' = "mreset"
          /\ UNCHANGED <<mintLog, batchIdx, wk, baseNonce, nonceOffset,
                         currentProviderIndex, hist>>
     ELSE /\ Commit(StartBatch(Cur, batchIdx + BatchSize))
          /\ batchIdx' = batchIdx + BatchSize
          /\ pc' = "batch"
  /\ UNCHANGED <<signerVars, globalNonce>>
  /\ UNCHANGED <<script, chainFaults, tokenRec, multi, wrapped, resync, pool, minter, landing, disk, writers, sigint, pendingTokens, zombies,
                 chainCount>>

\* the periodic resetNonceSequence returns and the next batch starts
PeriodicResetDone ==
  /\ pc = "mreset"
  /\ \E ok \in QueryOutcomes :
       Commit(StartBatch(resetNonceSequence(Cur, ok), batchIdx + BatchSize))
  /\ batchIdx' = batchIdx + BatchSize
  /\ pc' = "batch"
  /\ UNCHANGED <<signerVars, globalNonce>>
  /\ UNCHANGED <<script, chainFaults, tokenRec, multi, wrapped, resync, pool, minter, landing, disk, writers, sigint, pendingTokens, zombies,
                 chainCount>>

\* after the loop: mintLog.completedAt is set and the log is written
FinalSaveBegin ==
  /\ pc = "final"
  /\ BeginWrite("main", mintLog)
  /\ pc' = "finalsave"
  /\ UNCHANGED <<signerVars, globalNonce>>
  /\ UNCHANGED <<script, chainFaults, tokenRec, multi, wrapped, resync, pool, minter, landing, mintLog, sigint, pendingTokens, batchIdx, wk,
                 baseNonce, nonceOffset, currentProviderIndex, zombies,
                 chainCount, hist>>

FinalSaveDone ==
  /\ pc = "finalsave"
  /\ EndWrite(MainWriter)
  /\ pc' = "done"
  /\ UNCHANGED <<signerVars, globalNonce>>
  /\ UNCHANGED <<script, chainFaults, tokenRec, multi, wrapped, resync, pool, minter, landing, mintLog, sigint, pendingTokens, batchIdx, wk,
                 baseNonce, nonceOffset, currentProviderIndex, zombies,
                 chainCount, hist>>

----------------------------------------------------------------------------
\* mintSingleToken(tokenId, retryCount), one action per await

\* estimateGas and contract.mintURI answer.  The node accepts the transaction
\* whose nonce is its count, keeps one with a later nonce in its queue, and
\* rejects one with an earlier nonce; any request may fail for other reasons.
SendTx(t) ==
  /\ pc = "batch" /\ wk[t].st = "est"
  /\ LET n == wk[t].nonce IN
     \E kind \in {"OTHER", "NONCE_ERROR", "ALREADY_KNOWN", "sent"} :
       IF kind = "sent"
       THEN /\ n >= chainCount
            /\ n = chainCount => chainCount < MaxChain
            /\ chainCount' = IF n = chainCount THEN chainCount + 1 ELSE chainCount
            /\ wk' = [wk EXCEPT ![t].st = "wait", ![t].landed = (n = chainCount)]
            /\ UNCHANGED <<mintLog, baseNonce, nonceOffset,
                           currentProviderIndex, hist>>
       ELSE /\ kind \in {"NONCE_ERROR", "ALREADY_KNOWN"} => n < chainCount
            /\ kind = "OTHER" => MayFail(t)
            /\ Commit(Catch(Cur, t, kind))
            /\ UNCHANGED chainCount
  /\ UNCHANGED <<signerVars, globalNonce>>
  /\ UNCHANGED <<script, chainFaults, tokenRec, multi, wrapped, resync, pool, minter, landing, pc, disk, writers, sigint, pendingTokens, batchIdx,
                 zombies>>

\* the node mines a queued transaction once its nonce is the next one
MineQueued(t) ==
  /\ pc = "batch" /\ wk[t].st = "wait" /\ ~wk[t].landed
  /\ wk[t].nonce = chainCount /\ chainCount < MaxChain
  /\ chainCount' = chainCount + 1
  /\ wk' = [wk EXCEPT ![t].landed = TRUE]
  /\ UNCHANGED <<signerVars, globalNonce>>
  /\ UNCHANGED <<script, chainFaults, tokenRec, multi, wrapped, resync, pool, minter, landing, pc, mintLog, disk, writers, sigint, pendingTokens,
                 batchIdx, baseNonce, nonceOffset, currentProviderIndex,
                 zombies, hist>>

\* tx.wait() returns the receipt (status 1), or throws for a reverted one
AwaitReceipt(t) ==
  /\ pc = "batch" /\ wk[t].st = "wait" /\ wk[t].landed
  /\ \E status \in {0, 1} :
       IF status = 1
       THEN Commit(Finish([Cur EXCEPT !.log = MarkCompleted(@, t)], t))
       ELSE MayFail(t) /\ Commit(Catch(Cur, t, "OTHER"))
  /\ UNCHANGED <<signerVars, globalNonce>>
  /\ UNCHANGED <<script, chainFaults, tokenRec, multi, wrapped, resync, pool, minter, landing, pc, disk, writers, sigint, pendingTokens, batchIdx,
                 zombies, chainCount>>

\* mint_batch_300k_400k.js sendTransactionWithTimeout: the timer rejects first.
\* The wrapped async function is not cancelled: a send that has not happened
\* yet, or a transaction still queued at the node, stays behind.
TxTimeout(t) ==
  /\ script = "300k"
  /\ pc = "batch" /\ wk[t].st \in {"est", "wait"}
  /\ wk[t].landed \/ Cardinality(zombies) < MaxZombies
  /\ zombies' = IF wk[t].landed THEN zombies ELSE zombies \cup {wk[t].nonce}
  /\ Commit(Catch(Cur, t, "TIMEOUT"))
  /\ UNCHANGED <<signerVars, globalNonce>>
  /\ UNCHANGED <<script, chainFaults, tokenRec, multi, wrapped, resync, pool, minter, landing, pc, disk, writers, sigint, pendingTokens, batchIdx,
                 chainCount>>

\* a send left behind by a timeout reaches the node
ZombieSend(n) ==
  /\ n \in zombies
  /\ n <= chainCount
  /\ n = chainCount => chainCount < MaxChain
  /\ chainCount' = IF n = chainCount THEN chainCount + 1 ELSE chainCount
  /\ zombies' = zombies \ {n}
  /\ UNCHANGED <<signerVars, globalNonce>>
  /\ UNCHANGED <<script, chainFaults, tokenRec, multi, wrapped, resync, pool, minter, landing, pc, mintLog, disk, writers, sigint, pendingTokens,
                 batchIdx, wk, baseNonce, nonceOffset, currentProviderIndex,
                 hist>>

\* the catch block's `await resetNonceSequence()` returns
ResetDone(t) ==
  /\ pc = "batch" /\ wk[t].st = "reset"
  /\ \E ok \in QueryOutcomes : Commit(RetryOrFail(resetNonceSequence(Cur, ok), t))
  /\ UNCHANGED <<signerVars, globalNonce>>
  /\ UNCHANGED <<script, chainFaults, tokenRec, multi, wrapped, resync, pool, minter, landing, pc, disk, writers, sigint, pendingTokens, batchIdx,
                 zombies, chainCount>>

\* the retry delay ends: `return mintSingleToken(tokenId, retryCount + 1)`
Wake(t) ==
  /\ pc = "batch" /\ wk[t].st = "sleep"
  /\ Commit(BeginMint(Cur, t, wk[t].retry + 1))
  /\ UNCHANGED <<signerVars, globalNonce>>
  /\ UNCHANGED <<script, chainFaults, tokenRec, multi, wrapped, resync, pool, minter, landing, pc, disk, writers, sigint, pendingTokens, batchIdx,
                 zombies, chainCount>>

----------------------------------------------------------------------------
\* process.on('SIGINT') and the death of the process

\* the handler runs: `await fs.writeJson(CONFIG.MINT_LOG_PATH, mintLog)`
Sigint ==
  /\ Running /\ sigint = "no"
  /\ sigint' = "writing"
  /\ BeginWrite("sigint", mintLog)
  /\ UNCHANGED <<signerVars, globalNonce>>
  /\ UNCHANGED <<script, chainFaults, tokenRec, multi, wrapped, resync, pool, minter, landing, pc, mintLog, pendingTokens, batchIdx, wk, baseNonce,
                 nonceOffset, currentProviderIndex, zombies, chainCount, hist>>

\* the handler's write ends and it calls process.exit(0).  A write of main
\* still in progress on the same file is cut: which bytes the file holds
\* then is not determined by the program.
SigintExit ==
  /\ sigint = "writing"
  /\ \E d \in {OkDisk(SigintWriter.log), PartialDisk} :
       /\ d = PartialDisk => writers # {SigintWriter}
       /\ disk' = d
  /\ pc' = "interrupted"
  /\ Forget /\ writers' = {} /\ sigint' = "no"
  /\ UNCHANGED signerVars
  /\ UNCHANGED <<script, chainFaults, tokenRec, multi, wrapped, resync, pool, minter, landing, chainCount, hist>>

\* the process is killed or the machine stops; a file being written stays
\* as far as it was written
Crash ==
  /\ Running \/ sigint = "writing"
  /\ pc' = "crashed"
  /\ Forget /\ writers' = {} /\ sigint' = "no"
  /\ UNCHANGED signerVars
  /\ UNCHANGED <<script, chainFaults, tokenRec, multi, wrapped, resync, pool, minter, landing, disk, chainCount, hist>>

----------------------------------------------------------------------------
\* The specifications of the single-signer batch minters

InitBatch(name) ==
  /\ script = name
  /\ pc = "fresh"
  /\ mintLog = InitialMintLog
  /\ disk = NoDisk
  /\ writers = {}
  /\ sigint = "no"
  /\ pendingTokens = <<>>
  /\ batchIdx = 0
  /\ wk = IdleWorkers
  /\ baseNonce = NullNonce
  /\ nonceOffset = 0
  /\ currentProviderIndex = 0
  /\ zombies = {}
  /\ chainCount = 0
  /\ hist = [runs |-> 0, chainUsed |-> FALSE, submitted |-> {},
             startDisk |-> NoDisk, prevExit |-> "fresh"]
  /\ signerStates = <<>>
  /\ now = 1
  /\ tasks = [t \in Range |-> [st |-> "idle", retry |-> 0, signer |-> NoSigner,
                                lastSignerIndex |-> NoSigner,
                                resetFrom |-> NoSigner, errorType |-> "none",
                                provider |-> NoEndpoint, waited |-> FALSE]]
  /\ globalNonce = NullNonce

InitBatchMinters ==
  /\ InitBatch("200k") \/ InitBatch("300k")
  /\ chainFaults = AnyFault
  /\ tokenRec = NoTokenRec
  /\ multi = NoMulti
  /\ wrapped = NoWrapped
  /\ resync = NoResync
  /\ pool = NoPool
  /\ minter = NoMinter
  /\ landing = NoLanding

NextBatch ==
  \/ Start
  \/ LoadExistingProgress
  \/ InitSaveDone
  \/ InitializeBlockchain
  \/ \E t \in Range : SendTx(t)
  \/ \E t \in Range : MineQueued(t)
  \/ \E t \in Range : AwaitReceipt(t)
  \/ \E t \in Range : TxTimeout(t)
  \/ \E n \in 0..MaxChain : ZombieSend(n)
  \/ \E t \in Range : ResetDone(t)
  \/ \E t \in Range : Wake(t)
  \/ BatchDone
  \/ SaveDone
  \/ PauseDone
  \/ PeriodicResetDone
  \/ FinalSaveBegin
  \/ FinalSaveDone
  \/ Sigint
  \/ SigintExit
  \/ Crash

SpecBatch == InitBatchMinters /\ [][NextBatch]_vars

----------------------------------------------------------------------------
\* The batch minters run undisturbed: no interrupt, no crash, every request
\* answered in time, and a node that rejects or reverts only the submissions
\* of at most one token.

MaxFaulty == 1

InitUndisturbed ==
  /\ InitBatch("200k") \/ InitBatch("300k")
  /\ chainFaults \in [tokens : {S \in SUBSET Range : Cardinality(S) <= MaxFaulty},
                      queries : {FALSE}]
  /\ tokenRec = NoTokenRec
  /\ multi = NoMulti
  /\ wrapped = NoWrapped
  /\ resync = NoResync
  /\ pool = NoPool
  /\ minter = NoMinter
  /\ landing = NoLanding

NextUndisturbed ==
  \/ Start
  \/ LoadExistingProgress
  \/ InitSaveDone
  \/ InitializeBlockchain
  \/ \E t \in Range : SendTx(t)
  \/ \E t \in Range : MineQueued(t)
  \/ \E t \in Range : AwaitReceipt(t)
  \/ \E t \in Range : Wake(t)
  \/ BatchDone
  \/ SaveDone
  \/ PauseDone
  \/ PeriodicResetDone
  \/ FinalSaveBegin
  \/ FinalSaveDone

SpecUndisturbed == InitUndisturbed /\ [][NextUndisturbed]_vars

----------------------------------------------------------------------------
\* The optimized multi-signer minter (part_006): the signer pool

Signers == DOMAIN signerStates

\* initializeSignerStates, for n configured signer keys, at time t0
InitialSignerStates(n, t0) ==
  [i \in 0..(n - 1) |-> [consecutiveFailures |-> 0, isBackedOff |-> FALSE,
                         backoffUntil |-> 0, lastUsed |-> t0]]

ReactivateNever(ss, n) == ss

\* getNextAvailableSigner, first loop: backed-off signers whose time has passed
Reactivate(ss, n) ==
  [i \in DOMAIN ss |->
     IF ss[i].isBackedOff /\ n > ss[i].backoffUntil
     THEN [ss[i] EXCEPT !.isBackedOff = FALSE, !.consecutiveFailures = 0]
     ELSE ss[i]]

AvailableIgnoringBackoff(ss) == DOMAIN ss

\* `.filter(i => !signerStates[i].isBackedOff)`
Available(ss) == {i \in DOMAIN ss : ~ss[i].isBackedOff}

\* `.sort((a, b) => lastUsed[a] - lastUsed[b])[0]`: the sort is stable, so of
\* equally old signers the one with the smallest key comes first
OldestSigner(ss) ==
  CHOOSE i \in Available(ss) :
    \A j \in Available(ss) :
      \/ ss[i].lastUsed < ss[j].lastUsed
      \/ ss[i].lastUsed = ss[j].lastUsed /\ i <= j

\* getNextAvailableSigner at time n: the index returned (NoSigner for null)
\* and the signer states it leaves
getNextAvailableSigner(ss, n) ==
  LET r == Reactivate(ss, n) IN
    IF Available(r) = {}
    THEN [index |-> NoSigner, states |-> r]
    ELSE [index |-> OldestSigner(r),
          states |-> [r EXCEPT ![OldestSigner(r)].lastUsed = n]]

\* `provider: providers[parseInt(oldestSignerIndex) % providers.length]`, the
\* provider the signer's wallet was created with in initializeBlockchain
ProviderOfSigner(i) == i % NumProviders

handleSignerFailure(ss, i, n) ==
  IF ss[i].consecutiveFailures + 1 >= BackoffThreshold
  THEN [ss EXCEPT ![i].consecutiveFailures = @ + 1,
                  ![i].isBackedOff = TRUE,
                  ![i].backoffUntil = n + BackoffDuration]
  ELSE [ss EXCEPT ![i].consecutiveFailures = @ + 1]

handleSignerSuccessKeepsCount(ss, i) == ss

handleSignerSuccess(ss, i) == [ss EXCEPT ![i].consecutiveFailures = 0]

----------------------------------------------------------------------------
\* part_006: mintSingleTokenOptimized under its p-limit pool

IdleTask == [st |-> "idle", retry |-> 0, signer |-> NoSigner,
             lastSignerIndex |-> NoSigner, resetFrom |-> NoSigner,
             errorType |-> "none", provider |-> NoEndpoint, waited |-> FALSE]
IdleTasks == [t \in Range |-> IdleTask]

TaskInFlight == {"nosigner", "nonce", "send", "sleep"}
ActiveTasks(k) == Cardinality({t \in Range : k[t].st \in TaskInFlight})
QueuedTasks(k) == {t \in Range : k[t].st = "queued"}

CurOpt == [log |-> mintLog, ss |-> signerStates, tasks |-> tasks]

CommitOpt(s) ==
  /\ mintLog' = s.log
  /\ signerStates' = s.ss
  /\ tasks' = s.tasks

\* the head of mintSingleTokenOptimized(tokenId, retryCount) up to its first
\* await: a signer is taken; with none, the call waits and starts over
BeginMintOptimized(s, t, r) ==
  LET got == getNextAvailableSigner(s.ss, now) IN
    IF got.index = NoSigner
    THEN [s EXCEPT !.ss = got.states,
                   !.tasks[t].st = "nosigner", !.tasks[t].retry = r,
                   !.tasks[t].errorType = "none", !.tasks[t].waited = TRUE]
    ELSE [s EXCEPT
            !.ss = got.states,
            !.log = IF @.tokens[t] = "absent"
                    THEN [@ EXCEPT !.tokens[t] = "pending"] ELSE @,
            !.tasks[t].st = "nonce", !.tasks[t].retry = r,
            !.tasks[t].signer = got.index, !.tasks[t].errorType = "none",
            !.tasks[t].provider = ProviderOfSigner(got.index)]

RECURSIVE DispatchOptimized(_)
DispatchOptimized(s) ==
  IF ActiveTasks(s.tasks) < SignerConcurrency /\ QueuedTasks(s.tasks) # {}
  THEN DispatchOptimized(BeginMintOptimized(s, Min(QueuedTasks(s.tasks)), 0))
  ELSE s

FinishOptimized(s, t) == DispatchOptimized([s EXCEPT !.tasks[t].st = "done"])

\* the try block after tx.wait(): handleSignerSuccess(signerData.index), the
\* record, the summary
SucceedOptimized(s, t) ==
  LET i == s.tasks[t].signer IN
    FinishOptimized(
      [s EXCEPT !.tasks[t].resetFrom = s.ss[i].consecutiveFailures,
                !.ss = handleSignerSuccess(@, i),
                !.log = MarkCompleted(@, t)], t)

\* `mintLog.tokens[tokenId]?.lastSignerIndex || 0`
LastSignerIndexOr0(k, t) ==
  IF k[t].lastSignerIndex = NoSigner THEN 0 ELSE k[t].lastSignerIndex

\* the catch block of mintSingleTokenOptimized
CatchOptimized(s, t, kind) ==
  IF kind = "ALREADY_KNOWN"
  THEN FinishOptimized(
         [s EXCEPT !.ss = handleSignerSuccess(@, LastSignerIndexOr0(s.tasks, t)),
                   !.log = MarkCompleted(@, t)], t)
  ELSE LET s1 == [s EXCEPT
                    !.ss = IF s.tasks[t].lastSignerIndex # NoSigner
                           THEN handleSignerFailure(@, s.tasks[t].lastSignerIndex, now)
                           ELSE @,
                    !.tasks[t].lastSignerIndex = LastSignerIndexOr0(s.tasks, t),
                    !.tasks[t].errorType = kind]
       IN IF s.tasks[t].retry < RetryAttempts
          THEN [s1 EXCEPT !.tasks[t].st = "sleep"]
          ELSE FinishOptimized([s1 EXCEPT !.log = MarkFailed(@, t)], t)

OptUnchanged ==
  UNCHANGED <<script, chainFaults, tokenRec, multi, wrapped, resync, pool, minter, landing, pendingTokens, batchIdx, wk, baseNonce, nonceOffset,
              currentProviderIndex, zombies, chainCount, hist, sigint,
              globalNonce>>

\* main up to the first await of initializeBlockchain: no mint log exists,
\* every token of the range is pending, the configured signers get their states
OptMain ==
  /\ pc = "fresh"
  /\ \E n \in 0..MaxSigners : signerStates' = InitialSignerStates(n, now)
  /\ pc' = "init"
  /\ UNCHANGED <<mintLog, tasks, now, disk, writers>>
  /\ OptUnchanged

\* processBatchOptimized is called: batch.map(tokenId => mintLimit(...))
OptProcessBatch ==
  /\ pc = "init"
  /\ CommitOpt(DispatchOptimized(
       [CurOpt EXCEPT !.tasks = [t \in Range |-> [IdleTask EXCEPT !.st = "queued"]]]))
  /\ pc' = "batch"
  /\ UNCHANGED <<now, disk, writers>>
  /\ OptUnchanged

\* `await getFreshNonce(signerData.index)` answers, or throws
OptNonceDone(t) ==
  /\ pc = "batch" /\ tasks[t].st = "nonce"
  /\ \E ok \in QueryOutcomes :
       IF ok THEN CommitOpt([CurOpt EXCEPT !.tasks[t].st = "send"])
       ELSE CommitOpt(CatchOptimized(CurOpt, t, "NETWORK_ERROR"))
  /\ UNCHANGED <<pc, now, disk, writers>>
  /\ OptUnchanged

\* sendTransactionWithTimeout resolves with the receipt or rejects
OptSendDone(t) ==
  /\ pc = "batch" /\ tasks[t].st = "send"
  /\ \E kind \in {"receipt", "ALREADY_KNOWN", "NONCE_ERROR", "INSUFFICIENT_FUNDS"} :
       /\ kind # "receipt" => MayFail(t)
       /\ IF kind = "receipt" THEN CommitOpt(SucceedOptimized(CurOpt, t))
          ELSE CommitOpt(CatchOptimized(CurOpt, t, kind))
  /\ UNCHANGED <<pc, now, disk, writers>>
  /\ OptUnchanged

\* the retry delay ends: mintSingleTokenOptimized(tokenId, retryCount + 1)
OptWake(t) ==
  /\ pc = "batch" /\ tasks[t].st = "sleep"
  /\ CommitOpt(BeginMintOptimized(CurOpt, t, tasks[t].retry + 1))
  /\ UNCHANGED <<pc, now, disk, writers>>
  /\ OptUnchanged

\* the 5 s wait for a signer ends: mintSingleTokenOptimized(tokenId, retryCount)
OptNoSignerWake(t) ==
  /\ pc = "batch" /\ tasks[t].st = "nosigner"
  /\ CommitOpt(BeginMintOptimized(CurOpt, t, tasks[t].retry))
  /\ UNCHANGED <<pc, now, disk, writers>>
  /\ OptUnchanged

\* Promise.all resolves: processBatchOptimized writes the mint log
OptBatchDone ==
  /\ pc = "batch"
  /\ \A t \in Range : tasks[t].st = "done"
  /\ BeginWrite("main", mintLog)
  /\ pc' = "save"
  /\ UNCHANGED <<mintLog, signerStates, tasks, now>>
  /\ OptUnchanged

\* the write ends; the range was one batch, main writes the final log
OptSaveDone ==
  /\ pc \in {"save", "finalsave"}
  /\ IF pc = "save"
     THEN /\ writers' = {[who |-> "main", log |-> mintLog]}
          /\ disk' = PartialDisk
          /\ pc' = "finalsave"
     ELSE /\ EndWrite(MainWriter)
          /\ pc' = "done"
  /\ UNCHANGED <<mintLog, signerStates, tasks, now>>
  /\ OptUnchanged

\* Date.now() advances
Tick ==
  /\ pc \in {"fresh", "init", "batch"}
  /\ now < MaxNow
  /\ now' = now + 1
  /\ UNCHANGED <<pc, mintLog, signerStates, tasks, disk, writers>>
  /\ OptUnchanged

InitOptimized ==
  /\ script = "optimized"
  /\ pc = "fresh"
  /\ mintLog = InitialMintLog
  /\ disk = NoDisk
  /\ writers = {}
  /\ sigint = "no"
  /\ pendingTokens = <<>>
  /\ batchIdx = 0
  /\ wk = IdleWorkers
  /\ baseNonce = NullNonce
  /\ nonceOffset = 0
  /\ currentProviderIndex = 0
  /\ zombies = {}
  /\ chainCount = 0
  /\ hist = [runs |-> 0, chainUsed |-> FALSE, submitted |-> {},
             startDisk |-> NoDisk, prevExit |-> "fresh"]
  /\ signerStates = <<>>
  /\ now = 1
  /\ tasks = IdleTasks
  /\ globalNonce = NullNonce
  /\ chainFaults = AnyFault
  /\ tokenRec = NoTokenRec
  /\ multi = NoMulti
  /\ wrapped = NoWrapped
  /\ resync = NoResync
  /\ pool = NoPool
  /\ minter = NoMinter
  /\ landing = NoLanding

NextOptimized ==
  \/ OptMain
  \/ OptProcessBatch
  \/ \E t \in Range : OptNonceDone(t)
  \/ \E t \in Range : OptSendDone(t)
  \/ \E t \in Range : OptWake(t)
  \/ \E t \in Range : OptNoSignerWake(t)
  \/ OptBatchDone
  \/ OptSaveDone
  \/ Tick

SpecOptimized == InitOptimized /\ [][NextOptimized]_vars

\* The program with a node that takes every transaction sent to it and
\* whose answers to getTransactionCount may fail, when, once the batch is
\* started, every timer fires, every chain call is answered, every write
\* ends and the clock goes on
InitOptimizedFair ==
  /\ InitBatch("optimized")
  /\ chainFaults = [tokens |-> {}, queries |-> TRUE]
  /\ tokenRec = NoTokenRec
  /\ multi = NoMulti
  /\ wrapped = NoWrapped
  /\ resync = NoResync
  /\ pool = NoPool
  /\ minter = NoMinter
  /\ landing = NoLanding

SpecOptimizedFair ==
  /\ InitOptimizedFair /\ [][NextOptimized]_vars
  /\ \A t \in Range :
       /\ WF_vars(OptNonceDone(t)) /\ WF_vars(OptSendDone(t))
       /\ WF_vars(OptWake(t)) /\ WF_vars(OptNoSignerWake(t))
  /\ WF_vars(OptBatchDone) /\ WF_vars(OptSaveDone)
  /\ WF_vars(Tick)

----------------------------------------------------------------------------
\* Properties of the signer pool of part_006

HoldsSigner(t) == tasks[t].st \in {"nonce", "send"}

\* C2: at any moment a signer is held by at most one in-flight submission.
SignerHeldByOne ==
  \A t1, t2 \in Range :
    (t1 # t2 /\ HoldsSigner(t1) /\ HoldsSigner(t2)) => tasks[t1].signer # tasks[t2].signer

\* a call of mintSingleTokenOptimized gets a signer from getNextAvailableSigner
AcquireStep(t) == tasks[t].st \in {"queued", "sleep", "nosigner"} /\ tasks'[t].st = "nonce"

\* C9: a signer whose consecutive failures reached the threshold, which set
\* its backoffUntil, is returned by getNextAvailableSigner only after that
\* time has passed.
BackedOffNotAcquired ==
  [][\A t \in Range :
       AcquireStep(t) => now > signerStates[tasks'[t].signer].backoffUntil]_vars

\* a signer that was backed off has been returned again, after its backoff
ReacquiredAfterBackoff ==
  \E t \in Range, i \in Signers :
    /\ HoldsSigner(t) /\ tasks[t].signer = i
    /\ signerStates[i].backoffUntil # 0
    /\ signerStates[i].lastUsed > signerStates[i].backoffUntil

\* the submission of task t succeeds: the receipt arrives
SuccessStep(t) ==
  /\ tasks[t].st = "send" /\ tasks'[t].st = "done"
  /\ tasks'[t].resetFrom # NoSigner

\* C10: immediately after a submission made with a signer succeeds, that
\* signer's consecutiveFailures is 0.
SuccessClearsFailures ==
  [][\A t \in Range :
       SuccessStep(t) => signerStates'[tasks[t].signer].consecutiveFailures = 0]_vars

\* a submission has succeeded with a signer that had failures counted
SucceededAfterFailures ==
  \E t \in Range :
    /\ tasks[t].st = "done" /\ mintLog.tokens[t] = "completed"
    /\ tasks[t].resetFrom > 0
    /\ signerStates[tasks[t].signer].consecutiveFailures = 0

\* C23: an attempt that failed with INSUFFICIENT_FUNDS is not followed by a
\* further attempt for the same token with the same signer: the call that
\* waits for its retry after that error does not start again on that signer.
InsufficientFundsNotRetried ==
  [][\A t \in Range :
       (/\ tasks[t].st = "sleep"
        /\ tasks[t].errorType = "INSUFFICIENT_FUNDS"
        /\ tasks'[t].st = "nonce") => tasks'[t].signer # tasks[t].signer]_vars

\* C24: when an attempt fails with INSUFFICIENT_FUNDS, the signer that made
\* it is in backoff once the catch block has run, whatever its count of
\* consecutive failures was.
InsufficientFundsBacksOffAtOnce ==
  [][\A t \in Range :
       (/\ tasks[t].st = "send"
        /\ tasks'[t].st \in {"sleep", "done"}
        /\ tasks'[t].errorType = "INSUFFICIENT_FUNDS")
         => signerStates'[tasks[t].signer].isBackedOff]_vars

\* the health counter of signer j is as it was, or getNextAvailableSigner
\* has taken j out of an expired backoff
CounterKept(j) ==
  \/ signerStates'[j].consecutiveFailures = signerStates[j].consecutiveFailures
  \/ /\ signerStates[j].isBackedOff /\ now > signerStates[j].backoffUntil
     /\ signerStates'[j].consecutiveFailures = 0

\* C34: when an attempt made with a signer ends, the health of that signer
\* and of no other is updated: a failure, the first of the token as well as
\* a later one, counts as handleSignerFailure of that signer does; a receipt
\* or ALREADY_KNOWN sets that signer's counter to 0.
HealthOfActualSigner ==
  [][\A t \in Range :
       (HoldsSigner(t) /\ tasks'[t].st \in {"sleep", "done"}) =>
          LET i == tasks[t].signer IN
            /\ \A j \in Signers \ {i} : CounterKept(j)
            /\ IF tasks'[t].errorType = "none"
               THEN signerStates'[i].consecutiveFailures = 0
               ELSE /\ signerStates'[i].consecutiveFailures =
                          signerStates[i].consecutiveFailures + 1
                    /\ tasks'[t].st = "sleep" =>
                          signerStates' = handleSignerFailure(signerStates, i, now)]_vars

\* a signer is in a backoff that ends beyond the last time of the clock
BeyondClock ==
  \E i \in Signers :
    signerStates[i].isBackedOff /\ signerStates[i].backoffUntil >= MaxNow

\* C33: when every chain call is answered, a run that has started its batch
\* ends; and when main has returned, no token of the range is left pending.
RunTerminatesAllSettled ==
  /\ (pc = "batch") ~> (pc = "done" \/ BeyondClock)
  /\ [](pc = "done" => \A t \in Range : mintLog.tokens[t] \in {"completed", "failed"})

\* C39: a call that was told that every signer is in backoff waits with its
\* retry count as it is, and, the backoffs ending, obtains a signer.
NoSignerWaitsThenObtains ==
  /\ [][\A t \in Range :
          tasks[t].st = "nosigner" =>
             /\ tasks'[t].st \in {"nosigner", "nonce"}
             /\ tasks'[t].retry = tasks[t].retry]_vars
  /\ \A t \in Range :
       (tasks[t].st = "nosigner" /\ Signers # {}) ~>
          (tasks[t].st = "nonce" \/ BeyondClock)

\* a call that had waited because the only signer was in backoff holds that
\* signer, taken after the backoff had ended
ObtainedAfterWaiting ==
  \E t \in Range :
    /\ tasks[t].waited /\ tasks[t].st = "nonce"
    /\ Signers = {0}
    /\ signerStates[0].lastUsed > signerStates[0].backoffUntil
    /\ signerStates[0].backoffUntil # 0

\* C29: the endpoints of the submissions that processBatchOptimized starts
\* one after the other follow the rotation of the endpoints, each the
\* successor of the one before, whichever signers were acquired for them.
EndpointsFollowRotation ==
  [][(pc = "init" /\ pc' = "batch") =>
       \A t \in 1..(NumTokens - 1) :
         (tasks'[t].st = "nonce" /\ tasks'[t + 1].st = "nonce") =>
           tasks'[t + 1].provider = (tasks'[t].provider + 1) % NumProviders]_vars

\* the signers that are neither in backoff at this time nor held by an
\* in-flight call other than that of t
FreeSigners(t) ==
  Available(Reactivate(signerStates, now))
    \ {tasks[u].signer : u \in {v \in Range \ {t} : HoldsSigner(v)}}

\* C30: a call that asks for a signer while no other call moves gets the
\* least recently used of the signers that are neither in backoff nor held by
\* another in-flight call, and is told that there is none exactly when there
\* is no such signer.
AcquireLeastRecentlyUsedFree ==
  [][\A t \in Range :
       (/\ tasks[t].st \in {"sleep", "nosigner"}
        /\ \A u \in Range \ {t} : tasks'[u] = tasks[u]) =>
         /\ tasks'[t].st = "nonce" =>
              /\ tasks'[t].signer \in FreeSigners(t)
              /\ \A j \in FreeSigners(t) :
                   signerStates[tasks'[t].signer].lastUsed <= signerStates[j].lastUsed
         /\ tasks'[t].st = "nosigner" => FreeSigners(t) = {}]_vars

----------------------------------------------------------------------------
\* Properties of the single-signer batch minters

HoldsNonce(t) == wk[t].st \in {"est", "wait"}

\* C1: no two submissions of mint_batch_300k_400k.js that overlap in time hold
\* the same nonce, also when an error in another worker resets the sequence.
NoncesDistinct300k ==
  script = "300k" =>
    \A t1, t2 \in Range :
      (t1 # t2 /\ HoldsNonce(t1) /\ HoldsNonce(t2)) => wk[t1].nonce # wk[t2].nonce

AllCompleted(log) == \A t \in Range : log.tokens[t] = "completed"

StartedOnCompletedLedger ==
  hist.runs > 0 /\ hist.startDisk.st = "ok" /\ AllCompleted(hist.startDisk.log)

\* C4: a run started on a ledger in which every token of the range is
\* Completed performs no chain operation (no connection, no nonce query, no
\* submission), in either batch minter.
CompletedLedgerNoChainUse == StartedOnCompletedLedger => ~hist.chainUsed

\* a run started on a fully Completed ledger has returned
CompletedLedgerRunReturned == StartedOnCompletedLedger /\ pc = "done"

AfterNormalCompletion == hist.runs > 1 /\ hist.prevExit = "done"

FailedAtStart == {t \in Range : hist.startDisk.log.tokens[t] = "failed"}

\* C5 as stated: the run that follows a normal completion issues no submission.
RerunSubmitsNothing == AfterNormalCompletion => hist.submitted = {}

\* C5 amended: the run that follows a normal completion submits only tokens
\* the ledger it starts from records as Failed, hence nothing when none is.
RerunSubmitsOnlyFailed == AfterNormalCompletion => hist.submitted \subseteq FailedAtStart

\* a run after a normal completion has itself returned after resubmitting
RerunResubmittedFailed ==
  AfterNormalCompletion /\ pc = "done" /\ hist.submitted # {}

PendingComputed == pc = "init" \/ (pc = "done" /\ ~hist.chainUsed)

\* C11: when the node rejects or reverts the submissions of one token f only,
\* the first run ends with a persisted ledger in which every other token is
\* Completed and f is Failed if it exhausted its retries; the run that follows
\* lists f alone as pending and submits nothing but f.
ExhaustedTokenFailedThenRetriedAlone ==
  \A f \in Range :
    chainFaults.tokens = {f} =>
      /\ (hist.runs = 1 /\ pc = "done") =>
           /\ disk = OkDisk(mintLog)
           /\ \A t \in Range \ {f} : mintLog.tokens[t] = "completed"
           /\ mintLog.tokens[f] \in {"completed", "failed"}
      /\ (hist.runs = 2 /\ hist.prevExit = "done"
            /\ hist.startDisk.log.tokens[f] = "failed") =>
           /\ hist.submitted \subseteq {f}
           /\ PendingComputed => pendingTokens = <<f>>
           /\ pc = "done" => hist.submitted = {f}

\* C12: a first run on an empty ledger in which no submission is rejected or
\* reverted ends with every token of the range Completed in the persisted
\* ledger and the summary {total: n, successful: n, failed: 0, pending: 0}.
AllSucceedAllCompleted ==
  (chainFaults.tokens = {} /\ hist.runs = 1 /\ pc = "done") =>
    /\ disk = OkDisk(mintLog)
    /\ AllCompleted(disk.log)
    /\ disk.log.summary = [total |-> NumTokens, successful |-> NumTokens,
                           failed |-> 0, pending |-> 0]

\* a first run without any failure has returned, its submissions made
FaultlessRunReturned ==
  /\ chainFaults.tokens = {} /\ hist.runs = 1 /\ pc = "done"
  /\ hist.startDisk = NoDisk /\ hist.submitted = Range

\* the run after one that left a single Failed token has re-attempted it
FailedTokenRetriedAlone ==
  /\ Cardinality(chainFaults.tokens) = 1
  /\ hist.runs = 2 /\ hist.prevExit = "done" /\ pc = "done"
  /\ \E f \in chainFaults.tokens :
       hist.startDisk.log.tokens[f] = "failed" /\ hist.submitted = {f}

\* C15: at every moment the mintSingleToken calls that have started and have
\* not returned, those sleeping before a retry included, are at most
\* MINT_RATE_LIMIT.
InFlightWithinLimit == Active(wk) <= MintRateLimit

\* the pool is full, with a call sleeping before its retry and a call queued
PoolFullWithQueue ==
  /\ Active(wk) = MintRateLimit
  /\ Queued(wk) # {}
  /\ \E t \in Range : wk[t].st = "sleep"

EarlierGroups == {pendingTokens[k] : k \in 1..batchIdx}

\* C17: a mintSingleToken call is queued or running only for a token of the
\* current batch, and then every token of the earlier batches has its outcome
\* in the mint log, the write of the log that ended the previous batch is over
\* and the file, when complete, holds these outcomes.
BatchesOneAfterAnother ==
  \A t \in Range :
    wk[t].st # "idle" =>
      /\ pc = "batch"
      /\ \E k \in (batchIdx + 1)..Len(pendingTokens) :
           k <= batchIdx + BatchSize /\ pendingTokens[k] = t
      /\ \A w \in writers : w.who # "main"
      /\ \A u \in EarlierGroups :
           /\ mintLog.tokens[u] \in {"completed", "failed"}
           /\ disk.st = "ok" => disk.log.tokens[u] \in {"completed", "failed"}

\* a call of the second batch is in flight, the first batch saved
SecondBatchInFlight ==
  /\ pc = "batch" /\ batchIdx > 0 /\ disk.st = "ok"
  /\ \E t \in Range : wk[t].st \in InFlightSt

\* the step in which the call for token t gives up and records it Failed
FailStep(t) ==
  /\ pc = "batch" /\ wk[t].st \in InFlightSt
  /\ mintLog.tokens[t] # "failed" /\ mintLog'.tokens[t] = "failed"

\* C18: when a token is recorded Failed after its last retry, main stays in
\* the batch, the calls of the other tokens go on as they were (a queued one
\* may start), and a run that reaches its end has an outcome for every token
\* that was pending, those of the batches after a failure included.
FailureNeverAborts ==
  /\ [][\A t \in Range :
          FailStep(t) =>
            /\ pc' = "batch" /\ wk'[t].st = "done"
            /\ \A u \in Range \ {t} :
                 /\ wk[u].st \in InFlightSt \cup {"done"} => wk'[u] = wk[u]
                 /\ wk[u].st = "queued" => wk'[u].st \in InFlightSt \cup {"queued"}]_vars
  /\ [](pc \in {"final", "finalsave"} \/ (pc = "done" /\ hist.chainUsed) =>
          \A k \in 1..Len(pendingTokens) :
             mintLog.tokens[pendingTokens[k]] \in {"completed", "failed"})

\* a token of the first batch was recorded Failed and the run went on to
\* mint a token of the second batch and to its end
FinishedAfterFailure ==
  /\ pc = "done" /\ hist.chainUsed /\ Len(pendingTokens) > BatchSize
  /\ mintLog.tokens[pendingTokens[1]] = "failed"
  /\ mintLog.tokens[pendingTokens[Len(pendingTokens)]] = "completed"

\* C19: a run started on a mint log file that cannot be parsed makes no
\* submission and no chain request, does not go past the load (it ends with
\* the fatal error, unless the process is killed first), and leaves the file
\* as it found it instead of replacing it with a ledger of its own.
CorruptLedgerAbortsUntouched ==
  (hist.runs > 0 /\ hist.startDisk.st = "partial") =>
    /\ hist.submitted = {} /\ ~hist.chainUsed
    /\ pc \in {"load", "fatal", "crashed"}
    /\ disk.st = "partial"

\* the mint log loadExistingProgress ends with, given the file d
ReloadedLog(d) ==
  IF d.st = "ok" THEN d.log
  ELSE IF script = "200k" THEN InitAllPending(InitialMintLog)
  ELSE InitialMintLog

SeqRange(q) == {q[k] : k \in 1..Len(q)}

\* C20: when the process dies or is interrupted and leaves a file that can
\* be loaded (or none), every token whose mintSingleToken call had started
\* and whose outcome is not in that file is reloaded without a terminal status
\* (no record, or pending) and is in the pendingTokens the next run computes;
\* a run computes its pendingTokens from the file it found in that way.
UnrecordedTokensPendingAgain ==
  /\ [][(Running /\ pc' \in {"crashed", "interrupted"} /\ disk'.st # "partial") =>
          \A t \in hist.submitted :
             ReloadedLog(disk').tokens[t] \notin {"completed", "failed"} =>
               /\ ReloadedLog(disk').tokens[t] \in {"absent", "pending"}
               /\ t \in SeqRange(PendingTokens(ReloadedLog(disk')))]_vars
  /\ [](PendingComputed => pendingTokens = PendingTokens(ReloadedLog(hist.startDisk)))

\* after a death of mint_batch_300k_400k.js with a call in flight, the next
\* run has loaded the file and lists the token of that call
ReloadedInFlightToken ==
  /\ script = "300k" /\ hist.runs = 2 /\ hist.prevExit \in {"crashed", "interrupted"}
  /\ pc = "init" /\ hist.startDisk.st = "ok"
  /\ \E t \in Range :
       hist.startDisk.log.tokens[t] = "pending" /\ t \in SeqRange(pendingTokens)

\* C21: a process that ended on the operator's interrupt has left the ledger
\* it held in the file and has an exit status that is not zero and differs
\* from the status of a normal completion and from that of a fatal error.
InterruptExitDistinct ==
  pc = "interrupted" =>
    /\ ExitStatus(pc) # 0
    /\ ExitStatus(pc) \notin {ExitStatus("done"), ExitStatus("fatal")}

\* C25: when the catch block of a submission that failed with NONCE_ERROR
\* goes on after its resetNonceSequence (mint_batch_200k_300k.js resets for
\* no other error), baseNonce is the node's transaction count, also when the
\* query of the reset failed.
NonceErrorResyncs ==
  [][\A t \in Range :
       (/\ script = "200k" /\ pc = "batch"
        /\ wk[t].st = "reset" /\ wk'[t].st \in {"sleep", "done"})
         => baseNonce' = chainCount]_vars

\* C27: after a batch whose number is a multiple of the cadence, main does not
\* start the next batch without the periodic resetNonceSequence; while that
\* reset runs no call of a batch is queued or in flight and no send of an
\* earlier call is still on its way to the node; and the next batch starts
\* with baseNonce either as it was (the query failed) or the node's count.
PeriodicResyncWhenQuiet ==
  /\ [][(pc = "pause" /\ pc' = "batch") => BatchNum % ResetEvery # 0]_vars
  /\ [](pc = "mreset" =>
          /\ \A t \in Range : wk[t].st \in {"idle", "done"}
          /\ zombies = {})
  /\ [][(pc = "mreset" /\ pc' = "batch") =>
          baseNonce' \in {baseNonce, chainCount}]_vars

\* C6: once main has computed pendingTokens it lists, in increasing order and
\* without duplicates, exactly the tokens of the range that have no record or
\* a Pending or Failed one.
PendingIdsExact ==
  PendingComputed =>
    /\ \A i, j \in 1..Len(pendingTokens) : i < j => pendingTokens[i] < pendingTokens[j]
    /\ {pendingTokens[i] : i \in 1..Len(pendingTokens)}
         = {t \in Range : mintLog.tokens[t] \in {"absent", "pending", "failed"}}

\* C7: when the process has died or was interrupted, the file holds a complete
\* JSON text (or does not exist), whatever was being written at that time.
StoreParsableAfterDeath == pc \in {"crashed", "interrupted"} => disk.st # "partial"

CountOf(log, st) == Cardinality({t \in Range : log.tokens[t] \in st})

\* C8: the summary of a persisted mint log equals the counts of its token
\* records by status (a token without a record counting as pending).
PersistedSummaryMatches ==
  disk.st = "ok" =>
    /\ disk.log.summary.successful = CountOf(disk.log, {"completed"})
    /\ disk.log.summary.failed = CountOf(disk.log, {"failed"})
    /\ disk.log.summary.pending = CountOf(disk.log, {"pending", "absent"})

----------------------------------------------------------------------------
\* The retry scripts: retry_failed_batch2.js ("retry") and its improved
\* version part_013 ("improved").  Their mintSingleToken writes the mint log
\* itself, inside its try block.

RetryCur == [log |-> mintLog, gn |-> globalNonce, wk |-> wk,
             sub |-> hist.submitted, used |-> hist.chainUsed]

RetryCommit(s) ==
  /\ mintLog' = s.log
  /\ globalNonce' = s.gn
  /\ wk' = s.wk
  /\ hist' = [hist EXCEPT !.submitted = s.sub, !.chainUsed = s.used]

\* buildMintLog: a pending record for every token of the failed-tokens file
buildMintLog(log) ==
  [log EXCEPT !.tokens = [t \in Range |-> IF @[t] = "absent" THEN "pending" ELSE @[t]],
              !.summary.pending = @ + Cardinality({t \in Range : log.tokens[t] = "absent"})]

\* mintPendingTokens: Object.entries(mintLog.tokens).filter(status === 'pending')
RetryPendingTokens(log) == SortAsc({t \in Range : log.tokens[t] = "pending"})

\* the success path: part_013 tests the status it has just set to 'completed'
\* before `summary.pending--`, so it never decrements
RetryMarkCompleted(log, t) ==
  IF script = "improved"
  THEN [log EXCEPT !.tokens[t] = "completed", !.summary.successful = @ + 1]
  ELSE MarkCompleted(log, t)

RetryMarkFailed(log, t) ==
  IF script = "improved"
  THEN [log EXCEPT !.tokens[t] = "failed", !.summary.failed = @ + 1]
  ELSE MarkFailed(log, t)

\* part_013 only: `if (status === 'completed') return true`
AlreadyMinted(log, t) == script = "improved" /\ log.tokens[t] = "completed"

\* the head of mintSingleToken(tokenId, retryCount) up to its first await
RetryBeginMint(s, t, r) ==
  IF AlreadyMinted(s.log, t)
  THEN [s EXCEPT !.wk[t] = DoneWk]
  ELSE [s EXCEPT !.wk[t] = [st |-> IF script = "improved" THEN "nonce" ELSE "est",
                            retry |-> r, nonce |-> NullNonce, landed |-> FALSE],
                 !.sub = @ \cup {t},
                 !.used = TRUE]

RECURSIVE RetryDispatch(_)
RetryDispatch(s) ==
  IF Active(s.wk) < Concurrency /\ Queued(s.wk) # {}
  THEN RetryDispatch(RetryBeginMint(s, Min(Queued(s.wk)), 0))
  ELSE s

RetryFinish(s, t) == RetryDispatch([s EXCEPT !.wk[t] = DoneWk])

RetryStartBatch(s, i) ==
  RetryDispatch([s EXCEPT !.wk = [t \in Range |->
                                    IF t \in BatchOf(i) THEN QueuedWk ELSE IdleWk]])

\* getFreshNonce once getTransactionCount has answered (ok) or thrown
getFreshNonce(gn, ok) ==
  IF ok THEN (IF gn # NullNonce
              THEN (IF gn + 1 > chainCount THEN gn + 1 ELSE chainCount)
              ELSE chainCount)
  ELSE (IF gn # NullNonce THEN gn + 1 ELSE NullNonce)

\* the catch block up to its first await; the last branch marks the token
\* failed and calls fs.writeJson (the caller starts that write)
RetryCatch(s, t, kind) ==
  IF script = "improved" /\ kind = "ALREADY_KNOWN"
  THEN [s EXCEPT !.wk[t].st = "akwait"]
  ELSE LET s1 == IF script = "improved" /\ kind = "NONCE_ERROR"
                 THEN [s EXCEPT !.gn = NullNonce] ELSE s
       IN IF s.wk[t].retry < RetryAttempts
          THEN [s1 EXCEPT !.wk[t].st = "sleep"]
          ELSE [s1 EXCEPT !.log = RetryMarkFailed(@, t), !.wk[t].st = "failwrite"]

\* commits a step that ran the catch block, starting its write if it marked
\* the token failed
RetryCommitCatch(s, t) ==
  /\ RetryCommit(s)
  /\ IF s.wk[t].st = "failwrite"
     THEN BeginWrite(ToString(t), s.log)
     ELSE UNCHANGED <<disk, writers>>

WriterOf(t) == CHOOSE w \in writers : w.who = ToString(t)

RetryUnchanged ==
  /\ UNCHANGED signerVars
  /\ UNCHANGED <<script, chainFaults, tokenRec, multi, wrapped, resync, pool, minter, landing, baseNonce, nonceOffset, currentProviderIndex, zombies>>

\* main: loadFailedTokens, then readJson of an existing log or buildMintLog
RetryLoad ==
  /\ pc = "load"
  /\ IF disk.st = "partial"
     THEN /\ pc' = "fatal" /\ Forget /\ writers' = {} /\ sigint' = "no"
          /\ UNCHANGED <<disk, hist, script, chainFaults, tokenRec, multi, wrapped, resync, pool, minter, landing, chainCount>>
          /\ UNCHANGED signerVars
     ELSE /\ IF disk.st = "ok"
             THEN /\ mintLog' = disk.log
                  /\ pc' = "init"
                  /\ UNCHANGED <<disk, writers>>
             ELSE /\ mintLog' = buildMintLog(mintLog)
                  /\ BeginWrite("main", buildMintLog(mintLog))
                  /\ pc' = "initsave"
          /\ UNCHANGED <<sigint, pendingTokens, batchIdx, wk, globalNonce,
                         chainCount, hist>>
          /\ RetryUnchanged

\* the writeJson of buildMintLog ends
RetryInitSaveDone ==
  /\ pc = "initsave"
  /\ EndWrite(MainWriter)
  /\ pc' = "init"
  /\ UNCHANGED <<mintLog, sigint, pendingTokens, batchIdx, wk, globalNonce,
                 chainCount, hist>>
  /\ RetryUnchanged

\* initializeBlockchain returns (part_013 has read the starting nonce, or
\* not) and mintPendingTokens starts the first batch, or finds nothing pending
RetryInitializeBlockchain ==
  /\ pc = "init"
  /\ pendingTokens' = RetryPendingTokens(mintLog)
  /\ batchIdx' = 0
  /\ \E ok \in BOOLEAN :
       LET s0 == [RetryCur EXCEPT
                    !.gn = IF script = "improved" /\ ok THEN chainCount ELSE @,
                    !.used = TRUE]
       IN IF RetryPendingTokens(mintLog) = <<>>
          THEN RetryCommit(s0) /\ pc' = "done"
          ELSE /\ RetryCommit(
                    RetryDispatch([s0 EXCEPT !.wk = [t \in Range |->
                       IF t \in Slice(RetryPendingTokens(mintLog), 0)
                       THEN QueuedWk ELSE IdleWk]]))
               /\ pc' = "batch"
  /\ UNCHANGED <<disk, writers, sigint, chainCount>>
  /\ RetryUnchanged

\* part_013: `await getFreshNonce()` returns or throws
RetryNonceDone(t) ==
  /\ pc = "batch" /\ wk[t].st = "nonce"
  /\ \E ok \in BOOLEAN :
       IF getFreshNonce(globalNonce, ok) = NullNonce
       THEN RetryCommitCatch(RetryCatch(RetryCur, t, "NETWORK_ERROR"), t)
       ELSE /\ RetryCommit([RetryCur EXCEPT
                              !.gn = getFreshNonce(globalNonce, ok),
                              !.wk[t].st = "est",
                              !.wk[t].nonce = getFreshNonce(globalNonce, ok)])
            /\ UNCHANGED <<disk, writers>>
  /\ UNCHANGED <<pc, sigint, pendingTokens, batchIdx, chainCount>>
  /\ RetryUnchanged

\* estimateGas and contract.mintURI answer.  retry_failed_batch2.js passes no
\* nonce: the wallet takes the node's count when it sends.
RetrySendTx(t) ==
  /\ pc = "batch" /\ wk[t].st = "est"
  /\ LET n == IF script = "improved" THEN wk[t].nonce ELSE chainCount IN
     \E kind \in {"UNKNOWN_ERROR", "NONCE_ERROR", "ALREADY_KNOWN", "sent"} :
       IF kind = "sent"
       THEN /\ n >= chainCount
            /\ n = chainCount => chainCount < MaxChain
            /\ chainCount' = IF n = chainCount THEN chainCount + 1 ELSE chainCount
            /\ wk' = [wk EXCEPT ![t].st = "wait", ![t].nonce = n,
                                ![t].landed = (n = chainCount)]
            /\ UNCHANGED <<mintLog, globalNonce, hist, disk, writers>>
       ELSE /\ kind \in {"NONCE_ERROR", "ALREADY_KNOWN"} => n < chainCount
            /\ RetryCommitCatch(RetryCatch(RetryCur, t, kind), t)
            /\ UNCHANGED chainCount
  /\ UNCHANGED <<pc, sigint, pendingTokens, batchIdx>>
  /\ RetryUnchanged

\* tx.wait() returns the receipt: the token is marked completed and the mint
\* log is written; or tx.wait() throws for a reverted transaction
RetryAwaitReceipt(t) ==
  /\ pc = "batch" /\ wk[t].st = "wait" /\ wk[t].landed
  /\ \E status \in {0, 1} :
       IF status = 1
       THEN /\ RetryCommit([RetryCur EXCEPT !.log = RetryMarkCompleted(@, t),
                                            !.wk[t].st = "write"])
            /\ BeginWrite(ToString(t), RetryMarkCompleted(mintLog, t))
       ELSE RetryCommitCatch(RetryCatch(RetryCur, t, "UNKNOWN_ERROR"), t)
  /\ UNCHANGED <<pc, sigint, pendingTokens, batchIdx, chainCount>>
  /\ RetryUnchanged

\* part_013: the 2 s wait of the ALREADY_KNOWN branch ends; the token is
\* marked completed and the mint log is written
RetryAlreadyKnown(t) ==
  /\ pc = "batch" /\ wk[t].st = "akwait"
  /\ RetryCommit([RetryCur EXCEPT !.log = RetryMarkCompleted(@, t),
                                  !.wk[t].st = "write"])
  /\ BeginWrite(ToString(t), RetryMarkCompleted(mintLog, t))
  /\ UNCHANGED <<pc, sigint, pendingTokens, batchIdx, chainCount>>
  /\ RetryUnchanged

\* a writeJson of mintSingleToken ends: the call returns
RetryWriteDone(t) ==
  /\ pc = "batch" /\ wk[t].st \in {"write", "failwrite"}
  /\ EndWrite(WriterOf(t))
  /\ RetryCommit(RetryFinish(RetryCur, t))
  /\ UNCHANGED <<pc, sigint, pendingTokens, batchIdx, chainCount>>
  /\ RetryUnchanged

\* a writeJson of mintSingleToken fails after the file was opened (the volume
\* is full, the descriptor is lost).  In the try block, and in part_013's
\* ALREADY_KNOWN branch, the error reaches the retry logic of the catch
\* block; thrown by the catch block's own write it rejects the call, and
\* main's catch ends the process.
RetryWriteFails(t) ==
  /\ pc = "batch" /\ wk[t].st \in {"write", "failwrite"}
  /\ IF wk[t].st = "write"
     THEN /\ RetryCommit(RetryCatch(RetryCur, t, "UNKNOWN_ERROR"))
          /\ writers' =
               (writers \ {WriterOf(t)}) \cup
               (IF RetryCatch(RetryCur, t, "UNKNOWN_ERROR").wk[t].st = "failwrite"
                THEN {[who |-> ToString(t),
                       log |-> RetryCatch(RetryCur, t, "UNKNOWN_ERROR").log]}
                ELSE {})
          /\ disk' = PartialDisk
          /\ UNCHANGED <<pc, sigint, pendingTokens, batchIdx, baseNonce,
                         nonceOffset, currentProviderIndex, zombies>>
     ELSE /\ pc' = "fatal" /\ Forget /\ writers' = {} /\ sigint' = "no"
          /\ disk' = PartialDisk
          /\ UNCHANGED hist
  /\ UNCHANGED <<script, chainFaults, tokenRec, multi, wrapped, resync, pool, minter, landing, chainCount>>
  /\ UNCHANGED signerVars

\* the retry delay ends: `return mintSingleToken(..., retryCount + 1)`
RetryWake(t) ==
  /\ pc = "batch" /\ wk[t].st = "sleep"
  /\ RetryCommit(RetryDispatch(RetryBeginMint(RetryCur, t, wk[t].retry + 1)))
  /\ UNCHANGED <<pc, disk, writers, sigint, pendingTokens, batchIdx, chainCount>>
  /\ RetryUnchanged

\* Promise.all resolves: pause before the next batch, or mintPendingTokens
\* and main return
RetryBatchDone ==
  /\ pc = "batch"
  /\ \A t \in BatchOf(batchIdx) : wk[t].st = "done"
  /\ pc' = IF batchIdx + BatchSize < Len(pendingTokens) THEN "pause" ELSE "done"
  /\ wk' = IdleWorkers
  /\ UNCHANGED <<mintLog, disk, writers, sigint, pendingTokens, batchIdx,
                 globalNonce, chainCount, hist>>
  /\ RetryUnchanged

\* the pause between batches ends
RetryPauseDone ==
  /\ pc = "pause"
  /\ RetryCommit(RetryStartBatch(RetryCur, batchIdx + BatchSize))
  /\ batchIdx' = batchIdx + BatchSize
  /\ pc' = "batch"
  /\ UNCHANGED <<disk, writers, sigint, pendingTokens, chainCount>>
  /\ RetryUnchanged

\* another script of the repository, run with the same PRIVATE_KEY while this
\* one is minting, has a transaction accepted by the node
ExternalTx ==
  /\ pc = "batch"
  /\ chainCount < MaxChain
  /\ chainCount' = chainCount + 1
  /\ UNCHANGED <<pc, mintLog, disk, writers, sigint, pendingTokens, batchIdx,
                 wk, globalNonce, hist>>
  /\ RetryUnchanged

\* part_013 installs a SIGINT handler; retry_failed_batch2.js has none, and
\* SIGINT ends its process as a crash does
RetrySigint == script = "improved" /\ Sigint

InitRetry ==
  /\ script \in RetryScripts
  /\ pc = "fresh"
  /\ mintLog = InitialMintLog
  /\ disk = NoDisk
  /\ writers = {}
  /\ sigint = "no"
  /\ pendingTokens = <<>>
  /\ batchIdx = 0
  /\ wk = IdleWorkers
  /\ baseNonce = NullNonce
  /\ nonceOffset = 0
  /\ currentProviderIndex = 0
  /\ zombies = {}
  /\ chainCount = 0
  /\ hist = [runs |-> 0, chainUsed |-> FALSE, submitted |-> {},
             startDisk |-> NoDisk, prevExit |-> "fresh"]
  /\ signerStates = <<>>
  /\ now = 1
  /\ tasks = IdleTasks
  /\ globalNonce = NullNonce
  /\ chainFaults = AnyFault
  /\ tokenRec = NoTokenRec
  /\ multi = NoMulti
  /\ wrapped = NoWrapped
  /\ resync = NoResync
  /\ pool = NoPool
  /\ minter = NoMinter
  /\ landing = NoLanding

NextRetry ==
  \/ Start
  \/ RetryLoad
  \/ RetryInitSaveDone
  \/ RetryInitializeBlockchain
  \/ \E t \in Range : RetryNonceDone(t)
  \/ \E t \in Range : RetrySendTx(t)
  \/ \E t \in Range : MineQueued(t)
  \/ \E t \in Range : RetryAwaitReceipt(t)
  \/ \E t \in Range : RetryAlreadyKnown(t)
  \/ \E t \in Range : RetryWriteDone(t)
  \/ \E t \in Range : RetryWriteFails(t)
  \/ \E t \in Range : RetryWake(t)
  \/ RetryBatchDone
  \/ RetryPauseDone
  \/ ExternalTx
  \/ RetrySigint
  \/ SigintExit
  \/ Crash

SpecRetry == InitRetry /\ [][NextRetry]_vars

----------------------------------------------------------------------------
\* Properties of the retry scripts

\* C3: while the process runs, a token recorded Completed stays Completed:
\* no retry and no error raised after it was marked (a failed write of the
\* mint log) changes its status.
CompletedStaysCompleted ==
  [][\A t \in Range :
       (Running /\ Running' /\ mintLog.tokens[t] = "completed")
         => mintLog'.tokens[t] = "completed"]_vars

\* C16: no write of the mint log file is started by a mintSingleToken call
\* (only main writes it, or the interrupt handler), and at most one write of
\* the file is in progress at any time.
OnlySchedulerWritesLedger ==
  /\ \A w \in writers : w.who \in {"main", "sigint"}
  /\ Cardinality(writers) <= 1

----------------------------------------------------------------------------
\* One token's record in detail, through the runs of a batch minter: what
\* loadExistingProgress, mintSingleToken and the writes of the mint log do to
\* its status, attempts and txHash.  tokenRec.made counts the submission
\* attempts really made for the token, tokenRec.last is the outcome of the
\* latest one.

\* `attempts++` on a JavaScript value
Increment(a) ==
  IF a \in {UndefinedAttempts, NaNAttempts} THEN NaNAttempts
  ELSE IF a = NullAttempts THEN 1
  ELSE a + 1

\* JSON.stringify followed by JSON.parse: NaN comes back as null
ThroughJson(r) ==
  [r EXCEPT !.attempts = IF @ = NaNAttempts THEN NullAttempts ELSE @]

\* loadExistingProgress without a file: mint_batch_200k_300k.js creates
\* {tokenId, status: 'pending'} for every token, mint_batch_300k_400k.js nothing
InitialRecord ==
  IF script = "200k" THEN Record("pending", UndefinedAttempts, "none") ELSE NoRecord

\* is the record in main's pendingTokens
RecPending(r) ==
  IF script = "200k" THEN r.status \in {"pending", "failed"}
  ELSE r.status \in {"absent", "pending", "failed"}

\* these behaviours leave the rest of the program aside
RecFrame ==
  UNCHANGED <<script, chainFaults, multi, wrapped, resync, pool, minter, landing, pc, mintLog, disk, writers, sigint,
              pendingTokens, batchIdx, wk, baseNonce, nonceOffset,
              currentProviderIndex, zombies, chainCount, hist, signerVars,
              globalNonce>>

\* main: loadExistingProgress and the computation of pendingTokens
RecLoad ==
  /\ RecFrame
  /\ tokenRec.pc = "load"
  /\ LET r == IF tokenRec.exists THEN tokenRec.file ELSE InitialRecord IN
       tokenRec' = [tokenRec EXCEPT
                      !.rec = r,
                      !.file = IF tokenRec.exists THEN @ ELSE ThroughJson(InitialRecord),
                      !.exists = TRUE,
                      !.pc = IF RecPending(r) THEN "ready" ELSE "end"]

\* the head of mintSingleToken (first call, or the recursive call after the
\* retry delay): the record is created if missing, attempts++, and the
\* transaction is sent
RecMintSingleToken ==
  /\ RecFrame
  /\ tokenRec.pc \in {"ready", "sleep"}
  /\ LET r == IF tokenRec.rec.status = "absent" THEN Record("pending", 0, "none")
              ELSE tokenRec.rec
     IN tokenRec' = [tokenRec EXCEPT
                       !.rec = [r EXCEPT !.attempts = Increment(@)],
                       !.retry = IF tokenRec.pc = "sleep" THEN @ + 1 ELSE 0,
                       !.made = @ + 1,
                       !.pc = "sent"]

\* tx.wait() returns the receipt
RecReceipt ==
  /\ RecFrame
  /\ tokenRec.pc = "sent"
  /\ tokenRec' = [tokenRec EXCEPT !.rec.status = "completed", !.rec.txHash = "hash",
                                  !.last = "receipt", !.pc = "settled"]

\* the catch block
RecCatch(kind) ==
  /\ RecFrame
  /\ tokenRec.pc = "sent"
  /\ tokenRec' =
       IF kind = "ALREADY_KNOWN"
       THEN [tokenRec EXCEPT !.rec.status = "completed",
                             !.rec.txHash = "already_known",
                             !.last = kind, !.pc = "settled"]
       ELSE IF tokenRec.retry < RetryAttempts
       THEN [tokenRec EXCEPT !.last = kind, !.pc = "sleep"]
       ELSE [tokenRec EXCEPT !.rec.status = "failed", !.last = kind, !.pc = "settled"]

\* processBatch writes the mint log after the batch; main returns
RecSaved ==
  /\ RecFrame
  /\ tokenRec.pc = "settled"
  /\ tokenRec' = [tokenRec EXCEPT !.file = ThroughJson(tokenRec.rec), !.pc = "end"]

\* SIGINT: the handler writes the mint log as it is and exits
RecSigint ==
  /\ RecFrame
  /\ tokenRec.pc \in {"ready", "sent", "sleep", "settled"}
  /\ tokenRec' = [tokenRec EXCEPT !.file = ThroughJson(tokenRec.rec), !.pc = "end"]

\* the script is launched again
RecRestart ==
  /\ RecFrame
  /\ tokenRec.pc = "end"
  /\ tokenRec.run < MaxRuns
  /\ tokenRec' = [tokenRec EXCEPT !.pc = "load", !.rec = NoRecord, !.retry = 0,
                                  !.run = @ + 1, !.last = "none"]

InitRecord ==
  /\ InitBatch("200k") \/ InitBatch("300k")
  /\ chainFaults = AnyFault
  /\ tokenRec = [NoTokenRec EXCEPT !.pc = "load", !.run = 1]
  /\ multi = NoMulti
  /\ wrapped = NoWrapped
  /\ resync = NoResync
  /\ pool = NoPool
  /\ minter = NoMinter
  /\ landing = NoLanding

NextRecord ==
  \/ RecLoad
  \/ RecMintSingleToken
  \/ RecReceipt
  \/ \E kind \in {"ALREADY_KNOWN", "NONCE_ERROR", "UNKNOWN_ERROR"} : RecCatch(kind)
  \/ RecSaved
  \/ RecSigint
  \/ RecRestart

SpecRecord == InitRecord /\ [][NextRecord]_vars

\* C13: an attempt that ends with ALREADY_KNOWN leaves the record Completed
\* with txHash "already_known" and the call returns without a further attempt;
\* when it is the first attempt ever made for the token, attempts is 1.
AlreadyKnownCompletes ==
  [][(tokenRec.pc = "sent" /\ tokenRec'.last = "ALREADY_KNOWN") =>
       /\ tokenRec'.rec.status = "completed"
       /\ tokenRec'.rec.txHash = "already_known"
       /\ tokenRec'.pc = "settled"
       /\ tokenRec.made = 1 => tokenRec'.rec.attempts = 1]_vars

\* C32: every submission attempt leaves attempts an integer, one more than
\* it was (a record without attempts counting as 0), and no other step of a
\* run, nor the reload of a later run, changes it.
AttemptsCountsEveryAttempt ==
  [][/\ tokenRec'.made = tokenRec.made + 1 =>
          /\ tokenRec'.rec.attempts \in Nat
          /\ tokenRec'.rec.attempts =
                (IF tokenRec.rec.attempts \in Nat THEN tokenRec.rec.attempts
                 ELSE 0) + 1
     /\ (tokenRec'.made = tokenRec.made /\ tokenRec.pc \notin {"end", "load"}) =>
          tokenRec'.rec.attempts = tokenRec.rec.attempts]_vars

----------------------------------------------------------------------------
\* The multi-signer minter of prepare_batch2_mint_log.js, one batch: signers
\* are taken round-robin, each with its own {base, offset} nonce sequence;
\* multi.txCount is the node's transaction count of each signer.

MultiInFlight == {t \in Range : multi.call[t].st \notin {"idle", "done"}}

\* getNextSigner and getNextNonce(signerData.index), at the head of
\* mintSingleTokenRobust(tokenId, r)
MintWithNextSigner(m, t, r) ==
  LET i == m.currentSignerIndex IN
  [m EXCEPT !.currentSignerIndex = (i + 1) % NumMultiSigners,
            !.signerNonces[i].offset = @ + 1,
            !.call[t] = [st |-> "sent", retry |-> r, signer |-> i,
                         nonce |-> getNextNonce(m.signerNonces[i].base,
                                                m.signerNonces[i].offset)]]

\* the catch block after its nonce handling: retry, or the token is failed
MultiRetryOrFail(m, t) ==
  IF m.call[t].retry < RetryAttempts THEN [m EXCEPT !.call[t].st = "sleep"]
  ELSE [m EXCEPT !.call[t].st = "done"]

\* resetAllNonces: every signer's sequence restarts at the node's count
resetAllNonces(m) ==
  [m EXCEPT !.signerNonces = [i \in MultiSigners |->
                                [base |-> m.txCount[i], offset |-> 0]]]

MultiFrame ==
  UNCHANGED <<script, chainFaults, tokenRec, wrapped, resync, pool, minter, landing, pc, mintLog, disk, writers, sigint,
              pendingTokens, batchIdx, wk, baseNonce, nonceOffset,
              currentProviderIndex, zombies, chainCount, hist, signerVars,
              globalNonce>>

\* p-limit starts the next call of the batch
MultiStart(t) ==
  /\ MultiFrame
  /\ multi.call[t].st = "idle"
  /\ \A u \in Range : u < t => multi.call[u].st # "idle"
  /\ Cardinality(MultiInFlight) < Concurrency
  /\ multi' = MintWithNextSigner(multi, t, 0)

\* contract.mintURI answers: the node takes the transaction whose nonce is the
\* signer's count, rejects an earlier nonce, or the request fails
MultiSend(t) ==
  /\ MultiFrame
  /\ multi.call[t].st = "sent"
  /\ LET c == multi.call[t] IN
     \/ /\ c.nonce = multi.txCount[c.signer]
        /\ multi.txCount[c.signer] < MaxChain
        /\ multi' = [multi EXCEPT !.txCount[c.signer] = @ + 1,
                                  !.call[t].st = "mined"]
     \/ /\ c.nonce < multi.txCount[c.signer]
        /\ multi' = [multi EXCEPT !.call[t].st = "reset"]
     \/ multi' = MultiRetryOrFail(multi, t)

\* tx.wait() returns the receipt and the token is recorded completed with
\* signerIndex and nonce, or throws for a reverted transaction
MultiReceipt(t) ==
  /\ MultiFrame
  /\ multi.call[t].st = "mined"
  /\ \/ multi' = [multi EXCEPT
                    !.recorded[t] = [signerIndex |-> multi.call[t].signer,
                                     nonce |-> multi.call[t].nonce],
                    !.call[t].st = "done"]
     \/ multi' = MultiRetryOrFail(multi, t)

\* the timer of sendTransactionWithTimeout rejects a send still unanswered
MultiTimeout(t) ==
  /\ MultiFrame
  /\ multi.call[t].st = "sent"
  /\ multi.call[t].nonce > multi.txCount[multi.call[t].signer]
  /\ multi' = [multi EXCEPT !.call[t].st = "reset"]

\* `await resetAllNonces()` of the catch block returns
MultiResetDone(t) ==
  /\ MultiFrame
  /\ multi.call[t].st = "reset"
  /\ multi' = MultiRetryOrFail(resetAllNonces(multi), t)

\* the retry delay ends: mintSingleTokenRobust(tokenId, retryCount + 1)
MultiWake(t) ==
  /\ MultiFrame
  /\ multi.call[t].st = "sleep"
  /\ multi' = MintWithNextSigner(multi, t, multi.call[t].retry + 1)

InitMulti ==
  /\ InitBatch("multisigner")
  /\ chainFaults = AnyFault
  /\ tokenRec = NoTokenRec
  /\ multi = NoMulti
  /\ wrapped = NoWrapped
  /\ resync = NoResync
  /\ pool = NoPool
  /\ minter = NoMinter
  /\ landing = NoLanding

NextMulti ==
  \/ \E t \in Range : MultiStart(t)
  \/ \E t \in Range : MultiSend(t)
  \/ \E t \in Range : MultiReceipt(t)
  \/ \E t \in Range : MultiTimeout(t)
  \/ \E t \in Range : MultiResetDone(t)
  \/ \E t \in Range : MultiWake(t)

SpecMulti == InitMulti /\ [][NextMulti]_vars

RecordedNonces(i) ==
  {multi.recorded[t].nonce : t \in {u \in Range : multi.recorded[u].signerIndex = i}}

\* C14: for every signer, the nonces recorded on the completed tokens are
\* pairwise different and form a run of consecutive integers.
RecordedNoncesContiguous ==
  \A i \in MultiSigners :
    /\ \A t, u \in Range :
         (t # u /\ multi.recorded[t].signerIndex = i
                /\ multi.recorded[u].signerIndex = i)
           => multi.recorded[t].nonce # multi.recorded[u].nonce
    /\ \A a, b \in RecordedNonces(i) :
         \A n \in a..b : n \in RecordedNonces(i)

----------------------------------------------------------------------------
\* The metadata-to-mint processor (part_000): mintSingleToken sends through
\* retryWithBackoff, which makes up to `retries` calls of its own, and calls
\* itself again from its catch block while retryCount < CONFIG.RETRY_ATTEMPTS.

WrappedFrame ==
  UNCHANGED <<script, chainFaults, tokenRec, multi, resync, pool, minter, landing, pc, mintLog, disk,
              writers, sigint, pendingTokens, batchIdx, wk, baseNonce, nonceOffset,
              currentProviderIndex, zombies, chainCount, hist, signerVars,
              globalNonce>>

\* the catch block of mintSingleToken: retry after RETRY_DELAY, or mark failed
WrappedCatch(c) ==
  IF c.retryCount < RetryAttempts THEN [c EXCEPT !.st = "sleep"]
  ELSE [c EXCEPT !.st = "done", !.status = "failed"]

\* the catch block of retryWithBackoff: `if (i === retries - 1) throw e`
BackoffCatch(c) ==
  IF c.i = BackoffRetries - 1 THEN WrappedCatch(c)
  ELSE [c EXCEPT !.st = "backoff"]

\* `await fs.writeJson(CONFIG.MINT_LOG_PATH, mintLog)`: the file holds the
\* mint log as it is at the call
WriteMintLog(w) == [t \in Range |-> [w[t] EXCEPT !.onDisk = w[t].status]]

\* mintLimit starts the call for a pending token: retryWithBackoff calls fn,
\* which awaits wallet.getNonce()
WrappedStart(t) ==
  /\ WrappedFrame
  /\ wrapped[t].st = "idle"
  /\ wrapped' = [wrapped EXCEPT ![t].st = "nonce", ![t].retryCount = 0, ![t].i = 0]

\* wallet.getNonce() answers and fn calls contract.mintURI, which the node
\* accepts or rejects; or getNonce throws
WrappedSend(t) ==
  /\ WrappedFrame
  /\ wrapped[t].st = "nonce"
  /\ \E outcome \in {"accepted", "rejected", "noNonce"} :
       wrapped' = [wrapped EXCEPT ![t] =
         CASE outcome = "accepted" -> [@ EXCEPT !.st = "wait", !.sent = @ + 1]
           [] outcome = "rejected" -> BackoffCatch([@ EXCEPT !.sent = @ + 1])
           [] OTHER -> BackoffCatch(@)]

\* the backoff delay of retryWithBackoff is over: i++ and fn is called again
BackoffDone(t) ==
  /\ WrappedFrame
  /\ wrapped[t].st = "backoff"
  /\ wrapped' = [wrapped EXCEPT ![t].st = "nonce", ![t].i = @ + 1]

\* tx.wait() returns the receipt (the record becomes completed and the mint
\* log is written), or throws
WrappedReceipt(t) ==
  /\ WrappedFrame
  /\ wrapped[t].st = "wait"
  /\ \E ok \in BOOLEAN :
       wrapped' =
         IF ok
         THEN WriteMintLog([wrapped EXCEPT ![t].st = "done",
                                           ![t].status = "completed"])
         ELSE [wrapped EXCEPT ![t] = WrappedCatch(@)]

\* RETRY_DELAY is over: `return mintSingleToken(..., retryCount + 1)`
WrappedWake(t) ==
  /\ WrappedFrame
  /\ wrapped[t].st = "sleep"
  /\ wrapped' = [wrapped EXCEPT ![t].st = "nonce", ![t].retryCount = @ + 1,
                                ![t].i = 0]

InitWrapped ==
  /\ InitBatch("metadata")
  /\ chainFaults = AnyFault
  /\ tokenRec = NoTokenRec
  /\ multi = NoMulti
  /\ wrapped = NoWrapped
  /\ resync = NoResync
  /\ pool = NoPool
  /\ minter = NoMinter
  /\ landing = NoLanding

NextWrapped ==
  \/ \E t \in Range : WrappedStart(t)
  \/ \E t \in Range : WrappedSend(t)
  \/ \E t \in Range : BackoffDone(t)
  \/ \E t \in Range : WrappedReceipt(t)
  \/ \E t \in Range : WrappedWake(t)

SpecWrapped == InitWrapped /\ [][NextWrapped]_vars

\* C22: the transaction submissions made for a token in one run are at most
\* the first attempt plus RETRY_ATTEMPTS retries, and a call that ended
\* without success left the token failed.
AttemptsWithinCap ==
  \A t \in Range :
    /\ wrapped[t].sent <= RetryAttempts + 1
    /\ (wrapped[t].st = "done" /\ wrapped[t].status # "completed") =>
         wrapped[t].status = "failed"

\* C36: when mintPendingTokens has returned and main ends, the mint log
\* file holds for every token the status that the mint log in memory holds,
\* failed as well as completed.
PersistedEqualsMemoryAtEnd ==
  (\A t \in Range : wrapped[t].st = "done") =>
     \A t \in Range : wrapped[t].onDisk = wrapped[t].status

----------------------------------------------------------------------------
\* resetNonceSequence of mint_batch_200k_300k.js ("200k"), of the 400k-500k
\* script in retry_failed_batch2.js ("400k") and of its ultra-conservative
\* version in part_000 ("ultra"), against an account whose transactions are
\* submitted and mined meanwhile.

ResyncFrame ==
  UNCHANGED <<script, chainFaults, tokenRec, multi, wrapped, pool, minter, landing, pc, mintLog,
              disk, writers, sigint, pendingTokens, batchIdx, wk, baseNonce,
              nonceOffset, currentProviderIndex, zombies, chainCount, hist,
              signerVars, globalNonce>>

\* the nonce the next getNextNonce() returns
NonceCursor(r) == IF script = "200k" THEN NumOf(r.base) + r.seq ELSE r.seq

\* the try block once getTransactionCount has answered: 200k asks for the
\* 'pending' count, the other two for the 'latest' one
ResetAnswered(r) ==
  IF script = "200k" THEN [r EXCEPT !.base = r.pending, !.seq = 0]
  ELSE [r EXCEPT !.base = r.latest, !.seq = r.latest]

\* the catch block when getTransactionCount has thrown
ResetThrown(r) ==
  CASE script = "200k" -> r
    [] script = "400k" -> [r EXCEPT !.seq = 0]
    [] OTHER -> [r EXCEPT !.seq = NumOf(r.base) + LastKnownPlus]

\* resetNonceSequence is called and awaits the node
ResyncCall ==
  /\ ResyncFrame
  /\ resync.st \in {"idle", "completed"}
  /\ resync' = [resync EXCEPT !.st = "query"]

\* the node answers, or the request fails, and resetNonceSequence returns
ResyncReturn ==
  /\ ResyncFrame
  /\ resync.st = "query"
  /\ \E ok \in BOOLEAN :
       resync' = [(IF ok THEN ResetAnswered(resync) ELSE ResetThrown(resync))
                    EXCEPT !.st = "completed"]

\* getNextNonce() hands out the cursor to a submission
ResyncGetNextNonce ==
  /\ ResyncFrame
  /\ resync.st \in {"idle", "completed"}
  /\ NonceCursor(resync) <= MaxCount + LastKnownPlus
  /\ resync' = [resync EXCEPT !.st = "idle", !.seq = @ + 1]

\* the node takes a transaction of the account into its pool
AccountSubmits ==
  /\ ResyncFrame
  /\ resync.st # "off" /\ resync.pending < MaxCount
  /\ resync' = [resync EXCEPT !.pending = @ + 1]

\* a pooled transaction of the account is mined
AccountMined ==
  /\ ResyncFrame
  /\ resync.st # "off" /\ resync.latest < resync.pending
  /\ resync' = [resync EXCEPT !.latest = @ + 1]

InitResync ==
  /\ \E name \in ResyncScripts : InitBatch(name)
  /\ chainFaults = AnyFault
  /\ tokenRec = NoTokenRec
  /\ multi = NoMulti
  /\ wrapped = NoWrapped
  /\ resync = [NoResync EXCEPT !.st = "idle"]
  /\ pool = NoPool
  /\ minter = NoMinter
  /\ landing = NoLanding

NextResync ==
  \/ ResyncCall
  \/ ResyncReturn
  \/ ResyncGetNextNonce
  \/ AccountSubmits
  \/ AccountMined

SpecResync == InitResync /\ [][NextResync]_vars

\* C26: when resetNonceSequence has returned, the nonce cursor is the node's
\* pending-inclusive transaction count of the account, whatever the cursor
\* was before the call.
ResyncSetsPendingCount ==
  [][(resync.st = "query" /\ resync'.st = "completed") =>
       NonceCursor(resync') = resync.pending]_vars

----------------------------------------------------------------------------
\* getNextProvider (mint_batch_300k_400k.js, BatchMinter of part_014, the
\* 400k-500k script): the submissions of a batch run concurrently and each
\* attempt calls it once; the call itself has no await.

PoolFrame ==
  UNCHANGED <<script, chainFaults, tokenRec, multi, wrapped, resync, minter, landing, pc,
              mintLog, disk, writers, sigint, pendingTokens, batchIdx, wk, baseNonce,
              nonceOffset, currentProviderIndex, zombies, chainCount, hist,
              signerVars, globalNonce>>

\* the submission of token t calls getNextProvider()
PoolGetNextProvider(t) ==
  /\ PoolFrame
  /\ pool.calls[t] < MaxPoolCalls
  /\ pool' = [pool EXCEPT !.got[t] = pool.index,
                          !.returned[pool.index] = @ + 1,
                          !.index = NextProviderIndex(pool.index),
                          !.calls[t] = @ + 1]

InitPool ==
  /\ InitBatch("300k")
  /\ chainFaults = AnyFault
  /\ tokenRec = NoTokenRec
  /\ multi = NoMulti
  /\ wrapped = NoWrapped
  /\ resync = NoResync
  /\ pool = NoPool
  /\ minter = NoMinter
  /\ landing = NoLanding

NextPool == \E t \in Range : PoolGetNextProvider(t)

SpecPool == InitPool /\ [][NextPool]_vars

\* C28: every call of getNextProvider returns one of the configured
\* providers, and however the calls of concurrent submissions interleave, no
\* provider has been returned more than once more often than another.
RoundRobinBalanced ==
  /\ \A t \in Range : pool.calls[t] > 0 => pool.got[t] \in Endpoints
  /\ \A a, b \in Endpoints : pool.returned[a] - pool.returned[b] <= 1

\* interleaved submissions have made an odd number of calls and the rotation
\* has gone round at least once
RotationWentRound ==
  /\ \E t, u \in Range : t # u /\ pool.calls[t] = 1 /\ pool.calls[u] = MaxPoolCalls
  /\ \E a, b \in Endpoints : pool.returned[a] = pool.returned[b] + 1
  /\ \A a \in Endpoints : pool.returned[a] >= 1

-----------------------------------------------------------------------------
\* part_010: MultiSignerBatchMinter.  `minter` holds the signers (isActive,
\* currentNonce, batchesMinted; `cooling` says that less than
\* SIGNER_BATCH_DELAY has passed since lastUsed), each signer's transaction
\* count on the chain, the locals of executeBatches and, per batch, where its
\* executeBatchWithSigner promise stands.  `initialized`, `handed` and
\* `outcome` are history fields.

MinterFrame ==
  UNCHANGED <<script, chainFaults, tokenRec, multi, wrapped, resync, pool, landing,
              pc, mintLog, disk, writers, sigint, pendingTokens, batchIdx, wk,
              baseNonce, nonceOffset, currentProviderIndex, zombies, chainCount,
              hist, signerVars, globalNonce>>

\* activeBatches: the promises added and not yet deleted
ActiveBatches(m) == {b \in Batches : m.batch[b].st \in {"send", "wait", "resync"}}

\* getNextSigner: the signers that are not active and past the delay; of
\* them the one with the fewest batchesMinted, the first of these in
\* this.signers (reduce keeps `least` unless `current` is strictly smaller)
AvailableSigners(m) ==
  {i \in MultiSigners : ~m.signers[i].isActive /\ ~m.signers[i].cooling}

getNextSigner(m) ==
  IF AvailableSigners(m) = {} THEN NoSigner
  ELSE CHOOSE i \in AvailableSigners(m) :
         \A j \in AvailableSigners(m) :
            \/ m.signers[i].batchesMinted < m.signers[j].batchesMinted
            \/ /\ m.signers[i].batchesMinted = m.signers[j].batchesMinted
               /\ i <= j

\* executeBatchWithSigner up to its first await: isActive = true, and the
\* call's options take `signer.currentNonce++` (null++ yields 0 and leaves 1)
executeBatchWithSigner(m, i, b) ==
  [m EXCEPT !.signers[i].isActive = TRUE,
            !.signers[i].currentNonce = NumOf(m.signers[i].currentNonce) + 1,
            !.batch[b] = [st |-> "send", signer |-> i,
                          nonce |-> NumOf(m.signers[i].currentNonce),
                          outcome |-> "none",
                          handed |-> m.batch[b].handed + 1]]

\* `while (completedBatches < batches.length)`
LoopConditionCountsStarted(m) ==
  m.completedBatches + Cardinality(ActiveBatches(m)) < NumBatches

LoopCondition(m) == m.completedBatches < NumBatches

\* executeBatches from where it stands to its next await: the inner loop
\* starts batches while there is room and a signer, waits 100 ms when there
\* is no signer, and the outer loop awaits Promise.race of the active
\* batches; after the loop it awaits the remaining ones and returns to
\* run(), which calls saveResults
RECURSIVE executeBatches(_)
executeBatches(m) ==
  IF ~LoopCondition(m)
  THEN [m EXCEPT !.pc = IF ActiveBatches(m) # {} THEN "drain" ELSE "save"]
  ELSE IF /\ Cardinality(ActiveBatches(m)) < ConcurrentSigners
          /\ m.batchIndex < NumBatches
       THEN IF getNextSigner(m) = NoSigner
            THEN [m EXCEPT !.pc = "wait100"]
            ELSE executeBatches(
                   [executeBatchWithSigner(m, getNextSigner(m), m.batchIndex)
                      EXCEPT !.batchIndex = m.batchIndex + 1])
       ELSE IF ActiveBatches(m) # {}
            THEN [m EXCEPT !.pc = "race"]
            ELSE [m EXCEPT !.pc = "spin"]

\* the promise of batch b settles: `finally` clears isActive, the .then or
\* .catch callback deletes it from activeBatches and counts it, and
\* executeBatches goes on if it was awaiting the batches
SettleBatch(m, b, outcome) ==
  LET i == m.batch[b].signer
      ok == outcome = "success"
      n == [m EXCEPT
              !.signers[i].isActive = FALSE,
              !.batch[b].st = IF ok THEN "ok" ELSE "failed",
              !.batch[b].outcome = outcome,
              !.completedBatches = m.completedBatches + 1,
              !.successfulBatches = m.successfulBatches + (IF ok THEN 1 ELSE 0),
              !.failedBatches = m.failedBatches + (IF ok THEN 0 ELSE 1)]
  IN  CASE m.pc = "race" -> executeBatches(n)
        [] m.pc = "drain" /\ ActiveBatches(n) = {} -> [n EXCEPT !.pc = "save"]
        [] OTHER -> n

\* run() calls initialize(): initializeSigners asks the chain for every
\* signer; `ok` are the signers whose three calls all answered.  With none
\* it throws, and run()'s catch saves the results and exits with 1;
\* otherwise loadRecipients and executeBatches follow
initializeSigners(ok) ==
  /\ minter.pc = "new"
  /\ LET m == [minter EXCEPT
                 !.signers = [i \in MultiSigners |->
                    IF i \in ok
                    THEN [minter.signers[i] EXCEPT
                            !.currentNonce = minter.count[i],
                            !.initialized = TRUE]
                    ELSE minter.signers[i]]]
     IN  minter' = IF ok = {} THEN [m EXCEPT !.pc = "fatalsave"]
                   ELSE executeBatches(m)
  /\ MinterFrame

\* the 100 ms timer of the inner loop fires
MinterWake ==
  /\ minter.pc = "wait100"
  /\ minter' = executeBatches(minter)
  /\ MinterFrame

\* SIGNER_BATCH_DELAY has passed since signer i was last used
DelayPassed(i) ==
  /\ minter.signers[i].cooling
  /\ minter' = [minter EXCEPT !.signers[i].cooling = FALSE]
  /\ MinterFrame

\* the node takes the transaction of batch b: with the account's next nonce
\* it is mined, with a higher one it stays queued behind the gap
MinterSendAccepted(b) ==
  /\ minter.batch[b].st = "send"
  /\ minter.batch[b].nonce >= minter.count[minter.batch[b].signer]
  /\ minter' = [minter EXCEPT
        !.batch[b].st = "wait",
        !.count[minter.batch[b].signer] =
           IF minter.batch[b].nonce = @ THEN @ + 1 ELSE @]
  /\ MinterFrame

\* the send throws.  A used nonce gives an error whose message names the
\* nonce, and the catch awaits getTransactionCount; any other error (funds,
\* network, gas estimation) is thrown on at once
MinterSendRejected(b, kind) ==
  /\ minter.batch[b].st = "send"
  /\ kind = "nonceError" => minter.batch[b].nonce < minter.count[minter.batch[b].signer]
  /\ minter' = IF kind = "nonceError"
               THEN [minter EXCEPT !.batch[b].st = "resync"]
               ELSE SettleBatch(minter, b, "sendError")
  /\ MinterFrame

\* getTransactionCount(address, 'pending') of the catch answers, or throws
MinterResynced(b, answered) ==
  /\ minter.batch[b].st = "resync"
  /\ LET i == minter.batch[b].signer
         m == IF answered
              THEN [minter EXCEPT !.signers[i].currentNonce = minter.count[i]]
              ELSE minter
     IN  minter' = SettleBatch(m, b, "nonceError")
  /\ MinterFrame

\* tx.wait() returns the receipt of the mined transaction, or throws because
\* it was reverted
MinterReceipt(b, mined) ==
  /\ minter.batch[b].st = "wait"
  /\ minter.batch[b].nonce < minter.count[minter.batch[b].signer]
  /\ LET i == minter.batch[b].signer
         m == IF mined
              THEN [minter EXCEPT
                      !.signers[i].batchesMinted = @ + 1,
                      !.signers[i].cooling = TRUE]
              ELSE minter
     IN  minter' = SettleBatch(m, b, IF mined THEN "success" ELSE "reverted")
  /\ MinterFrame

\* saveResults has written the results file: run() prints the summary and
\* returns, or, after the throw, exits with 1
MinterSaved ==
  /\ minter.pc \in {"save", "fatalsave"}
  /\ minter' = [minter EXCEPT !.saved = TRUE,
                  !.pc = IF minter.pc = "save" THEN "done" ELSE "fatal"]
  /\ MinterFrame

InitMinter ==
  /\ InitBatch("batchminter")
  /\ chainFaults = AnyFault
  /\ tokenRec = NoTokenRec
  /\ multi = NoMulti
  /\ wrapped = NoWrapped
  /\ resync = NoResync
  /\ pool = NoPool
  /\ minter \in {[NoMinter EXCEPT !.pc = "new", !.count = c] :
                   c \in [MultiSigners -> 0..1]}
  /\ landing = NoLanding

NextMinter ==
  \/ \E ok \in SUBSET MultiSigners : initializeSigners(ok)
  \/ MinterWake
  \/ \E i \in MultiSigners : DelayPassed(i)
  \/ \E b \in Batches : MinterSendAccepted(b)
  \/ \E b \in Batches, kind \in {"nonceError", "sendError"} :
        MinterSendRejected(b, kind)
  \/ \E b \in Batches, answered \in BOOLEAN : MinterResynced(b, answered)
  \/ \E b \in Batches, mined \in BOOLEAN : MinterReceipt(b, mined)
  \/ MinterSaved

SpecMinter == InitMinter /\ [][NextMinter]_vars

\* C31: when the initialization of every signer failed the run ends in the
\* fatal path with no batch handed to a signer; when it failed for some, the
\* run goes on, and every batch that was handed to a signer was handed to
\* one whose initialization had succeeded.
FailedInitSignerNeverSelected ==
  /\ minter.pc \in {"fatalsave", "fatal"} =>
        \A b \in Batches : minter.batch[b].handed = 0
  /\ \A b \in Batches :
        minter.batch[b].signer # NoSigner =>
           minter.signers[minter.batch[b].signer].initialized

\* C37: a send that fails with an error that is not a nonce error leaves
\* the signer's cursor at the nonce of the failed send.
NonNonceFailureKeepsNonce ==
  [][\A b \in Batches :
        /\ minter.batch[b].st = "send"
        /\ minter'.batch[b].st = "failed"
        /\ minter'.batch[b].outcome = "sendError"
        => minter'.signers[minter.batch[b].signer].currentNonce =
              minter.batch[b].nonce]_vars

\* C38: the batches below batchIndex have been handed to a signer once and
\* the others not at all; completedBatches counts the successful and the
\* failed batches; and once the loop of executeBatches is left, every batch
\* has been handed out and has completed.
EveryBatchHandedOnce ==
  /\ \A b \in Batches :
        minter.batch[b].handed = (IF b < minter.batchIndex THEN 1 ELSE 0)
  /\ minter.completedBatches = minter.successfulBatches + minter.failedBatches
  /\ minter.completedBatches =
        Cardinality({b \in Batches : minter.batch[b].st \in {"ok", "failed"}})
  /\ minter.pc \in {"drain", "save", "done"} =>
        /\ minter.completedBatches = NumBatches
        /\ minter.batchIndex = NumBatches
        /\ ActiveBatches(minter) = {}

\* the run has returned with batches of both signers, successful and failed,
\* after two batches had been in flight together
BatchesDoneBothWays ==
  /\ minter.pc = "done"
  /\ minter.successfulBatches > 0
  /\ minter.failedBatches > 0
  /\ \E b, c \in Batches : minter.batch[b].signer # minter.batch[c].signer

-----------------------------------------------------------------------------
\* One token and the mint transactions made for it, through the attempts of
\* a run and through later runs, in mint_batch_300k_400k.js ("300k") and in
\* retry_failed_batch2.js ("retry").  The wallet mints nothing else here, so
\* landing.count, the node's transaction count of the wallet, is the number of
\* mint transactions of the token that the chain has accepted.  landing.tx is
\* the transaction of the attempt in progress, landing.orphan one that an
\* earlier attempt or run left behind.

LandingFrame ==
  UNCHANGED <<script, chainFaults, tokenRec, multi, wrapped, resync, pool, minter,
              pc, mintLog, disk, writers, sigint, pendingTokens, batchIdx, wk,
              baseNonce, nonceOffset, currentProviderIndex, zombies, chainCount,
              hist, signerVars, globalNonce>>

\* the catch block once the error is classified (and, in "300k", after the
\* nonce reset for a nonce error or a timeout): sleep and recurse, or mark
\* the token failed; a transaction not yet mined stays behind
LandingCatch(l, reset) ==
  [l EXCEPT
     !.base = IF reset THEN l.count ELSE @,
     !.off = IF reset THEN 0 ELSE @,
     !.orphan = IF l.tx.st \in {"unsent", "pool"} THEN l.tx ELSE @,
     !.tx = NoTx,
     !.status = IF l.retry < RetryAttempts THEN @ ELSE "failed",
     !.pc = IF l.retry < RetryAttempts THEN "sleep" ELSE "settled"]

\* the transaction x reaches the node, or the node looks at its queue: with
\* the wallet's next nonce it is mined, with a later one it is queued, with
\* an earlier one it is refused.  "retry" sends without a nonce and the
\* provider fills in the pending count.
AtNode(l, x) ==
  LET n == IF x.nonce = NoNonce THEN l.count ELSE x.nonce IN
    IF n = l.count THEN [st |-> "mined", nonce |-> n]
    ELSE IF n > l.count THEN [st |-> "pool", nonce |-> n]
    ELSE [st |-> "refused", nonce |-> n]

\* mintSingleToken / mintSingleTokenRobust is called, by the batch or after
\* the retry delay: "300k" takes getNextNonce() and starts the timer
LandingBegin ==
  /\ landing.pc \in {"ready", "sleep"}
  /\ landing' = [landing EXCEPT
        !.pc = "est",
        !.retry = IF landing.pc = "sleep" THEN @ + 1 ELSE 0,
        !.off = IF script = "300k" THEN @ + 1 ELSE @,
        !.tx = [st |-> "unsent",
                nonce |-> IF script = "300k" THEN landing.base + landing.off
                          ELSE NoNonce]]
  /\ LandingFrame

\* contract.mintURI answers: the node has taken the transaction, or the call
\* throws (a nonce error for a used nonce, or any other error)
LandingSend(kind) ==
  /\ landing.pc = "est"
  /\ LET x == AtNode(landing, landing.tx) IN
       CASE kind = "sent" ->
              /\ x.st # "refused"
              /\ x.st = "mined" => landing.count < MaxMined
              /\ landing' = [landing EXCEPT
                    !.tx = x, !.pc = "wait",
                    !.count = IF x.st = "mined" THEN @ + 1 ELSE @]
         [] kind = "NONCE_ERROR" ->
              /\ x.st = "refused"
              /\ landing' = LandingCatch([landing EXCEPT !.tx = NoTx],
                                         script = "300k")
         [] OTHER ->
              landing' = LandingCatch([landing EXCEPT !.tx = NoTx], FALSE)
  /\ LandingFrame

\* tx.wait() returns the receipt of the mined transaction: the record is
\* completed
LandingReceipt ==
  /\ landing.pc = "wait" /\ landing.tx.st = "mined"
  /\ landing' = [landing EXCEPT !.status = "completed", !.tx = NoTx,
                                !.pc = "settled"]
  /\ LandingFrame

\* "300k", sendTransactionWithTimeout: the timer rejects before the wrapped
\* function has resolved; that function goes on.  The catch resets the nonce
\* sequence (`error.message.includes('timeout')`)
LandingTimeout ==
  /\ script = "300k"
  /\ landing.pc \in {"est", "wait"}
  /\ landing.orphan = NoTx \/ landing.tx.st = "mined"
  /\ landing' = LandingCatch(landing, TRUE)
  /\ LandingFrame

\* tx.wait() throws although the transaction was sent: the connection to the
\* node failed while waiting for the receipt
LandingWaitThrows ==
  /\ landing.pc = "wait"
  /\ landing.orphan = NoTx \/ landing.tx.st = "mined"
  /\ landing' = LandingCatch(landing, FALSE)
  /\ LandingFrame

\* a transaction left behind reaches the node, or is mined from its queue
LandingOrphan ==
  /\ landing.orphan # NoTx
  /\ LET x == AtNode(landing, landing.orphan) IN
       /\ x.st # "pool"
       /\ x.st = "mined" => landing.count < MaxMined
       /\ landing' = [landing EXCEPT
             !.orphan = NoTx,
             !.count = IF x.st = "mined" THEN @ + 1 ELSE @]
  /\ LandingFrame

\* the run ends: the mint log is written after the token's outcome, or the
\* process is stopped before that with the record still pending
LandingEnd ==
  /\ landing.pc \in {"ready", "est", "wait", "sleep", "settled"}
  /\ landing.pc # "settled" =>
        landing.orphan = NoTx \/ landing.tx.st \notin {"unsent", "pool"}
  /\ landing' = [landing EXCEPT
        !.pc = "end", !.tx = NoTx,
        !.orphan = IF landing.tx.st = "pool" THEN landing.tx ELSE @]
  /\ LandingFrame

\* the script is started again.  "300k" takes the tokens whose record is not
\* completed and resets its nonce sequence in initializeBlockchain; "retry"
\* takes the records that are pending
LandingRestart ==
  /\ landing.pc = "end"
  /\ landing.run < MaxRuns
  /\ IF script = "300k" THEN landing.status # "completed"
     ELSE landing.status = "pending"
  /\ landing' = [landing EXCEPT
        !.pc = "ready", !.run = @ + 1, !.retry = 0,
        !.status = "pending",
        !.base = landing.count, !.off = 0]
  /\ LandingFrame

InitLanding ==
  /\ InitBatch("300k") \/ InitBatch("retry")
  /\ chainFaults = AnyFault
  /\ tokenRec = NoTokenRec
  /\ multi = NoMulti
  /\ wrapped = NoWrapped
  /\ resync = NoResync
  /\ pool = NoPool
  /\ minter = NoMinter
  /\ landing = [NoLanding EXCEPT !.pc = "ready", !.run = 1]

NextLanding ==
  \/ LandingBegin
  \/ \E kind \in {"sent", "NONCE_ERROR", "UNKNOWN_ERROR"} : LandingSend(kind)
  \/ LandingReceipt
  \/ LandingTimeout
  \/ LandingWaitThrows
  \/ LandingOrphan
  \/ LandingEnd
  \/ LandingRestart

SpecLanding == InitLanding /\ [][NextLanding]_vars

\* C35: the chain accepts at most one mint transaction for the token, over
\* all attempts of a run and all resumed runs.
AtMostOneMintLands == landing.count <= 1

====
